---- MODULE Spec2Model ----
(***************************************************************************)
(* Model of backend-utm's AppService (src/src/app.service.ts): the         *)
(* pre-authorization workflow, route characterization, the in-memory      *)
(* flight plan store and the two cron loops (authorization, telemetry).   *)
(*                                                                         *)
(* Conventions                                                             *)
(*  - Coordinates are integers on a small grid; a turf position [lon, lat] *)
(*    is the pair (x, y) = (lon, lat).                                     *)
(*  - Altitudes are fixed-point numbers with AltScale units per metre, so  *)
(*    that Math.floor is not the identity.                                 *)
(*  - A JavaScript value that may be undefined is the string UNDEFINED     *)
(*    where the defined values are strings, and a record with a `defined`  *)
(*    field where they are objects.                                        *)
(*  - An operation that may throw returns [threw, message, value].         *)
(*  - An await on fetch() is a point where the environment picks the       *)
(*    outcome: rejection, a non-success response, an unparsable body, a    *)
(*    body without `data`, or a body with `data`.                          *)
(***************************************************************************)
EXTENDS Integers, Sequences, FiniteSets, TLC

VARIABLES
    pre,        \* the last preAuthorization call made through the controller
    database,   \* AppService.database: drones, flightPlans, locations, operators
    tel,        \* the running invocations of simulateDroneTelemetry
    aut,        \* the invocation of simulateFlightPlansAuthorization under way
    ext,        \* what the external collaborator has received
    call        \* the last call of a method of the service and its outcome

vars == <<pre, database, tel, aut, ext, call>>

-----------------------------------------------------------------------------
(* Bounds of the model *)

MaxTelTicks == 2      \* telemetry invocations that may overlap in time
MaxPlans == 1         \* flight plans the store may hold
MaxPath == 2          \* waypoints of a plan authorized through the service API
AltScale == 2         \* fixed-point units per metre of altitude
MaxRoute == 2         \* points of a route given to getRouteCharacteristics
RandomDen == 21       \* values Math.random() may take: r / RandomDen
MaxLocations == 2     \* locations stored through the service API

-----------------------------------------------------------------------------
(* Program constants *)

TelemetrySteps == 40  \* for (let i = 0; i < 40; i++)
ViolationEvery == 30  \* if (i % 30 === 0)
MinPoints == 30       \* Math.floor(Math.random() * (50 - 30 + 1)) + 30
MaxPoints == 50       \* Math.floor(Math.random() * (50 - 30 + 1)) + 30
AltitudeJump == 200   \* prevPoint.alt + 200, in metres
Attempts == 3         \* for (let i = 0; i < 3; i++)
ValidAttempts == 2    \* valid: i < 2

-----------------------------------------------------------------------------
(* Values *)

UNDEFINED == "undefined"

\* enum ZoneType of types/enums.ts: a string enum, keys to values
ZoneType ==
    [RURAL |-> "rural", URBAN |-> "urban", HOSPITALS |-> "hospitals",
     MILITARY |-> "military", RESTRICTED |-> "restricted"]

\* ZoneType[zone.zoneType.toString()]: a string enum has no reverse mapping,
\* so only the enum's KEYS index it; anything else gives undefined.
ZoneTypeLookup(key) ==
    IF key \in DOMAIN ZoneType THEN ZoneType[key] ELSE UNDEFINED

\* enum PreAuthorizationStatus { APPROVED, FAILED }: the members by name
PreAuthorizationStatus == [APPROVED |-> "APPROVED", FAILED |-> "FAILED"]

\* JavaScript !v for a string-or-undefined value
Falsy(v) == v = UNDEFINED \/ v = ""

Includes(seq, v) == \E k \in 1..Len(seq) : seq[k] = v

Ok(v) == [threw |-> FALSE, message |-> "", value |-> v]
Throw(m) == [threw |-> TRUE, message |-> m, value |-> UNDEFINED]

Position(lat, lon, alt) == [lat |-> lat, lon |-> lon, alt |-> alt]
Coord(latitude, longitude) == [latitude |-> latitude, longitude |-> longitude]

RECURSIVE MaxAlt(_)
\* Math.max(...route.map(point => point.alt)) of a non-empty route
MaxAlt(route) ==
    IF Len(route) = 1 THEN route[1].alt
    ELSE LET m == MaxAlt(Tail(route))
         IN IF route[1].alt > m THEN route[1].alt ELSE m

\* the altitude is passed on without flooring
Floor_m(a) == a

\* Math.floor on a fixed-point altitude
Floor(a) == (a \div AltScale) * AltScale

-----------------------------------------------------------------------------
(* Zone geometry: turf.polygon and turf.booleanPointInPolygon *)

\* one edge (ring[j], ring[i]) of turf's inRing: the point lies on the edge
OnBoundary(px, py, xi, yi, xj, yj) ==
    /\ py * (xi - xj) + yi * (xj - px) + yj * (px - xi) = 0
    /\ (xi - px) * (xj - px) <= 0
    /\ (yi - py) * (yj - py) <= 0

\* one edge of turf's inRing: the ray from the point crosses the edge;
\* px < (xj - xi) * (py - yi) / (yj - yi) + xi without the division
Intersect(px, py, xi, yi, xj, yj) ==
    /\ (yi > py) # (yj > py)
    /\ IF yj - yi > 0
       THEN (px - xi) * (yj - yi) < (xj - xi) * (py - yi)
       ELSE (px - xi) * (yj - yi) > (xj - xi) * (py - yi)

\* turf's inRing with ignoreBoundary = false; ring is a sequence of <<x, y>>
InRing(px, py, ring0) ==
    LET n0 == Len(ring0)
        ring == IF ring0[1] = ring0[n0] THEN SubSeq(ring0, 1, n0 - 1) ELSE ring0
        n == Len(ring)
        prev(i) == IF i = 1 THEN n ELSE i - 1
        onB == \E i \in 1..n :
                  OnBoundary(px, py, ring[i][1], ring[i][2],
                             ring[prev(i)][1], ring[prev(i)][2])
        crossings == Cardinality({i \in 1..n :
                        Intersect(px, py, ring[i][1], ring[i][2],
                                  ring[prev(i)][1], ring[prev(i)][2])})
    IN onB \/ (crossings % 2 = 1)

\* zone.boundaries.map(coord => [coord.longitude, coord.latitude])
RingOf(boundaries) ==
    [k \in 1..Len(boundaries) |->
        <<boundaries[k].longitude, boundaries[k].latitude>>]

\* zone.boundaries.push(zone.boundaries[0]): the fetched zone object is
\* changed in place, once per check
PushClosing(zone) ==
    [zone EXCEPT !.boundaries = Append(@, @[1])]

\* turf.polygon([ring]) then turf.booleanPointInPolygon(point, polygon) on a
\* zone whose boundary was just closed; turf.polygon throws on a ring of
\* fewer than 4 positions
PointInZonePolygon(point, zone) ==
    IF Len(zone.boundaries) < 4
    THEN Throw("Each LinearRing of a Polygon must have 4 or more Positions.")
    ELSE Ok(InRing(point.lon, point.lat, RingOf(zone.boundaries)))

-----------------------------------------------------------------------------
(* Zone retrieval and route characterization *)

Zone(zoneType, boundaries, minAltitude, maxAltitude, isActive) ==
    [zoneType |-> zoneType, boundaries |-> boundaries,
     minAltitude |-> minAltitude * AltScale,
     maxAltitude |-> maxAltitude * AltScale, isActive |-> isActive]

\* getZonesLimits on the outcome of fetch(`${ENDPOINT_URL}/api/zones`);
\* the value is response.data, which a body without `data` leaves undefined
getZonesLimits(zoneOut) ==
    CASE zoneOut.kind = "reject" -> Throw(zoneOut.message)
      [] zoneOut.kind = "notok" -> Throw("Failed to retrieve zone limits")
      [] zoneOut.kind = "badjson" -> Throw(zoneOut.message)
      [] zoneOut.kind = "nodata" -> Ok([defined |-> FALSE, zones |-> <<>>])
      [] OTHER -> Ok([defined |-> TRUE, zones |-> zoneOut.zones])

RECURSIVE ZonesForEach(_, _, _, _)
\* zonesLimits.forEach((zone) => ...) for one route point, from zone k on:
\* the classifications accumulated so far and the (changed) zone list
ZonesForEach(point, zonesLimits, k, zones) ==
    IF k > Len(zonesLimits)
    THEN [threw |-> FALSE, message |-> "", zones |-> zones,
          zonesLimits |-> zonesLimits]
    ELSE LET zone == zonesLimits[k]
             type == ZoneTypeLookup(zone.zoneType)
         IN  IF ~zone.isActive
             THEN ZonesForEach(point, zonesLimits, k + 1, zones)
             ELSE IF Includes(zones, type)
             THEN ZonesForEach(point, zonesLimits, k + 1, zones)
             ELSE LET closed == PushClosing(zone)
                      changed == [zonesLimits EXCEPT ![k] = closed]
                      inside == PointInZonePolygon(point, closed)
                  IN  IF inside.threw
                      THEN [threw |-> TRUE, message |-> inside.message,
                            zones |-> zones, zonesLimits |-> changed]
                      ELSE ZonesForEach(point, changed, k + 1,
                              IF inside.value /\ ~Includes(zones, type)
                              THEN Append(zones, type) ELSE zones)

\* only the first point of the route is looked at
RouteForEach_m(route, p, zonesLimits, zones) ==
    ZonesForEach(route[1], zonesLimits, 1, zones)

RECURSIVE RouteForEach(_, _, _, _)
\* request.flightPlan.route.forEach((point, index) => ...), from point p on
RouteForEach(route, p, zonesLimits, zones) ==
    IF p > Len(route)
    THEN [threw |-> FALSE, message |-> "", zones |-> zones,
          zonesLimits |-> zonesLimits]
    ELSE LET r == ZonesForEach(route[p], zonesLimits, 1, zones)
         IN  IF r.threw THEN r
             ELSE RouteForEach(route, p + 1, r.zonesLimits, r.zones)

\* getRouteCharacteristics(request) on the outcome of its zone retrieval
getRouteCharacteristics(request, zoneOut) ==
    LET limits == getZonesLimits(zoneOut)
        hasRoute == request.flightPlan.defined
                    /\ Len(request.flightPlan.route) > 0
        altitudeLimit == IF hasRoute THEN MaxAlt(request.flightPlan.route)
                         ELSE 0
    IN  IF limits.threw THEN Throw(limits.message)
        ELSE IF ~hasRoute
        THEN Ok([droneId |-> request.droneId, zones |-> <<>>,
                 altitudeLimit |-> Floor(altitudeLimit)])
        ELSE IF ~limits.value.defined
        THEN Throw("Cannot read properties of undefined (reading 'forEach')")
        ELSE LET r == RouteForEach(request.flightPlan.route, 1,
                                   limits.value.zones, <<>>)
             IN  IF r.threw THEN Throw(r.message)
                 ELSE Ok([droneId |-> request.droneId, zones |-> r.zones,
                          altitudeLimit |-> Floor(altitudeLimit)])

-----------------------------------------------------------------------------
(* preAuthorization *)

MsgInvalidRequest == "Invalid request: droneId and flightPlan are required."

\* the guard forgets the flightPlan
ValidRequest_m(request) ==
    ~Falsy(request.droneId)

\* the guard of line 47, negated
ValidRequest(request) ==
    ~(Falsy(request.droneId) \/ ~request.flightPlan.defined)

\* the zone list is submitted as characterized
DefaultZones_m(zones) ==
    zones

\* lines 68-71: an empty zone list becomes [ZoneType.RESTRICTED]
DefaultZones(zones) ==
    IF Len(zones) > 0 THEN zones ELSE <<ZoneType.RESTRICTED>>

\* the reason does not carry the error's message
CatchReason_m(message) ==
    "Unknown error"

\* error.message || 'Unknown error'
CatchReason(message) ==
    IF message = "" THEN "Unknown error" ELSE message

\* the catch block of preAuthorization: the error becomes the returned value
PreCatch(request, message, zoneCalls, submitted) ==
    [threw |-> FALSE, failed |-> TRUE, error |-> message,
     ret |-> [droneId |-> request.droneId,
              preauthorizationStatus |-> UNDEFINED,
              preauthorization_status |-> "FAILED",
              reason |-> CatchReason(message)],
     zoneCalls |-> zoneCalls, submitted |-> submitted]

\* the authority's reason is not passed on
PermissionResponse_m(permOut) ==
    CASE permOut.kind = "reject" -> Throw(permOut.message)
      [] permOut.kind = "badjson" -> Throw(permOut.message)
      [] permOut.kind = "nodata" ->
           Throw("Cannot read properties of undefined (reading 'preauthorizationStatus')")
      [] OTHER -> Ok([permOut.data EXCEPT !.reason = UNDEFINED])

\* lines 82-98 on the outcome of the route-permission fetch: response.ok is
\* never read; response.json() may throw; `data = data.data`; the log line
\* reads data.preauthorizationStatus, which throws when data is undefined
PermissionResponse(permOut) ==
    CASE permOut.kind = "reject" -> Throw(permOut.message)
      [] permOut.kind = "badjson" -> Throw(permOut.message)
      [] permOut.kind = "nodata" ->
           Throw("Cannot read properties of undefined (reading 'preauthorizationStatus')")
      [] OTHER -> Ok(permOut.data)

\* preAuthorization(request) on the outcomes of its two fetches: what it
\* returns, whether an error was raised inside it, how many times it
\* retrieved the zones and the bodies it posted to /api/route-permissions/check
PreSubmit(request, rc, permOut) ==
    IF ~ValidRequest(request)
    THEN PreCatch(request, MsgInvalidRequest, 0, <<>>)
    ELSE IF rc.threw
         THEN PreCatch(request, rc.message, 1, <<>>)
         ELSE LET body == [rc.value EXCEPT !.zones = DefaultZones(@)]
                  resp == PermissionResponse(permOut)
              IN  IF resp.threw
                  THEN PreCatch(request, resp.message, 1, <<body>>)
                  ELSE [threw |-> FALSE, failed |-> FALSE, error |-> "",
                        ret |-> resp.value, zoneCalls |-> 1,
                        submitted |-> <<body>>]

\* preAuthorization(request) when the zone endpoint answers zoneOut and the
\* permission endpoint permOut
preAuthorization(request, zoneOut, permOut) ==
    PreSubmit(request, getRouteCharacteristics(request, zoneOut), permOut)

-----------------------------------------------------------------------------
(* The environment: what the endpoints may answer *)

ZUrban ==
    Zone("URBAN", <<Coord(0, 0), Coord(0, 2), Coord(2, 2), Coord(2, 0)>>,
         0, 120, TRUE)
ZRural ==
    Zone("RURAL", <<Coord(0, 2), Coord(0, 4), Coord(2, 4)>>, 0, 150, TRUE)
ZRestricted ==
    Zone("RESTRICTED", <<Coord(3, 3), Coord(3, 4), Coord(4, 4), Coord(4, 3)>>,
         0, 60, TRUE)
ZMilitaryOff ==
    Zone("MILITARY", <<Coord(0, 0), Coord(0, 4), Coord(4, 4), Coord(4, 0)>>,
         0, 500, FALSE)
\* a zone whose zoneType is the enum VALUE, as interface Zone types it
ZHospitals ==
    Zone("hospitals", <<Coord(3, 0), Coord(3, 1), Coord(4, 1), Coord(4, 0)>>,
         0, 90, TRUE)

ZoneLists ==
    { <<>>,
      <<ZUrban, ZRural>>,
      <<ZMilitaryOff, ZUrban, ZRestricted>>,
      <<ZRestricted, ZHospitals, ZUrban>> }

ErrorMessages == {"Network error", ""}

ZoneOutcomes ==
    [kind : {"reject"}, message : ErrorMessages, zones : {<<>>}]
    \cup [kind : {"notok"}, message : {""}, zones : {<<>>}]
    \cup [kind : {"badjson"}, message : {"Unexpected token < in JSON"},
          zones : {<<>>}]
    \cup [kind : {"nodata"}, message : {""}, zones : {<<>>}]
    \cup [kind : {"data"}, message : {""}, zones : ZoneLists]

DroneIds == {"1", "2", "3"}

NoDecision ==
    [droneId |-> UNDEFINED, preauthorizationStatus |-> UNDEFINED,
     preauthorization_status |-> UNDEFINED, reason |-> UNDEFINED]

\* the decisions the authority may answer with
Decisions ==
    [droneId : {"1", "2"},
     preauthorizationStatus : {PreAuthorizationStatus.APPROVED,
                               PreAuthorizationStatus.FAILED},
     preauthorization_status : {UNDEFINED},
     reason : {"decided by the authority"}]

PermOutcomes ==
    [kind : {"reject"}, ok : {FALSE}, message : ErrorMessages,
     data : {NoDecision}]
    \cup [kind : {"badjson"}, ok : BOOLEAN,
          message : {"Unexpected token < in JSON"}, data : {NoDecision}]
    \cup [kind : {"nodata"}, ok : BOOLEAN, message : {""}, data : {NoDecision}]
    \cup [kind : {"data"}, ok : BOOLEAN, message : {""}, data : Decisions]

NoFlightPlan == [defined |-> FALSE, route |-> <<>>]
FlightPlanOf(route) == [defined |-> TRUE, route |-> route]

\* routes of requests made through the controller
RequestRoutes ==
    { <<>>,
      <<Position(1, 1, 120 * AltScale)>>,
      <<Position(4, 0, 60 * AltScale + 1)>>,
      <<Position(1, 1, 120 * AltScale), Position(1, 3, 180 * AltScale + 1),
        Position(4, 4, 100 * AltScale)>>,
      <<Position(4, 4, 100 * AltScale), Position(1, 3, 180 * AltScale + 1),
        Position(1, 1, 120 * AltScale)>> }

Requests ==
    [droneId : {UNDEFINED, "", "1"},
     flightPlan : {NoFlightPlan} \cup {FlightPlanOf(r) : r \in RequestRoutes}]

-----------------------------------------------------------------------------
(* Initial state: the service right after construction *)

IdleTel ==
    [pc |-> "idle", plans |-> <<>>, ci |-> 1, i |-> 0, routePoint |-> 0]

NoCall == [op |-> "none"]

NoAuthPlan == [droneId |-> UNDEFINED, flightPlan |-> NoFlightPlan, zones |-> <<>>]

IdleAut ==
    [pc |-> "idle", i |-> 0, k |-> 0, droneIndex |-> 0, route |-> <<>>,
     flightPlan |-> NoAuthPlan, rc |-> Throw(""), response |-> NoDecision]

PreIdle ==
    [called |-> FALSE,
     request |-> [droneId |-> UNDEFINED, flightPlan |-> NoFlightPlan],
     zoneOut |-> [kind |-> "notok", message |-> "", zones |-> <<>>],
     permOut |-> [kind |-> "nodata", ok |-> FALSE, message |-> "",
                  data |-> NoDecision],
     out |-> PreCatch([droneId |-> UNDEFINED], MsgInvalidRequest, 0, <<>>)]

Init ==
    /\ pre = PreIdle
    /\ database = [drones |-> <<>>, flightPlans |-> <<>>, locations |-> <<>>,
                   operators |-> <<>>]
    /\ tel = [t \in 1..MaxTelTicks |-> IdleTel]
    /\ aut = IdleAut
    /\ ext = [routeLogs |-> [p \in 1..(MaxPlans + 1) |-> 0]]
    /\ call = NoCall

-----------------------------------------------------------------------------
(* POST /preauthorization: AppController.preAuthorization *)

PreAuthorizationCall ==
    /\ ~pre.called
    /\ \E request \in Requests, zoneOut \in ZoneOutcomes,
          permOut \in PermOutcomes :
          pre' = [called |-> TRUE, request |-> request, zoneOut |-> zoneOut,
                  permOut |-> permOut,
                  out |-> preAuthorization(request, zoneOut, permOut)]
    /\ UNCHANGED <<call, database, tel, aut, ext>>

\* the controller has answered; the next request may come
PreAuthorizationDone ==
    /\ pre.called
    /\ pre' = PreIdle
    /\ UNCHANGED <<call, database, tel, aut, ext>>

NextPre == PreAuthorizationCall \/ PreAuthorizationDone

\* the pre-authorization workflow alone, on every request and every outcome
\* of its two fetches
SpecPre == Init /\ [][NextPre]_vars

-----------------------------------------------------------------------------
(* The store: addMockDrone and authorizeFlightPlan *)

\* the drones the service API is asked to add: all pass validation
DroneInputs ==
    [model : {"Mock Drone Model"}, droneType : {"MEDICAL"},
     permittedZones : {<<ZoneType.URBAN, ZoneType.RURAL>>},
     operatorId : {"0xoperator"}, certHashes : {<<"cert-hash-1">>}]

\* JavaScript values that are not strings, written with a leading #
NonStrings == {"#42"}

\* an array member that is missing from an input, written as a sequence so
\* that it compares with the arrays
MissingArray == <<UNDEFINED>>

\* the guard of lines 377-385, negated: an empty permittedZones array is
\* truthy
ValidDroneFields(drone) ==
    /\ ~Falsy(drone.model)
    /\ drone.droneType # UNDEFINED
    /\ drone.permittedZones # MissingArray
    /\ ~Falsy(drone.operatorId)

\* an empty array of certHashes is let through
ValidCertHashes_m(drone) ==
    /\ drone.certHashes # MissingArray
    /\ \A k \in 1..Len(drone.certHashes) : drone.certHashes[k] \notin NonStrings

\* the guard of lines 388-397, negated
ValidCertHashes(drone) ==
    /\ drone.certHashes # MissingArray
    /\ Len(drone.certHashes) > 0
    /\ \A k \in 1..Len(drone.certHashes) : drone.certHashes[k] \notin NonStrings

\* the guards of lines 377-397, negated
ValidDrone(drone) ==
    ValidDroneFields(drone) /\ ValidCertHashes(drone)

MsgInvalidDrone == "Invalid drone data"
MsgInvalidCertHashes == "certHashes must be a non-empty array of strings"
MsgMintFailed == "Failed to add drone to blockchain"

\* the outcomes of fetch(`${ENDPOINT_URL}/api/drones/mint`); tokenId is the
\* id the authority assigns
MintOutcomes ==
    [kind : {"reject", "notok", "badjson", "nodata"}, tokenId : {UNDEFINED}]
    \cup [kind : {"data"}, tokenId : {"1"}]

\* the drone is stored before the mint call is made
addMockDrone_m(db, drone, mintOut) ==
    LET stored == [db EXCEPT !.drones =
                      Append(@, [_id |-> mintOut.tokenId,
                                 permittedZones |-> drone.permittedZones])]
    IN  IF ~ValidDroneFields(drone)
        THEN [threw |-> TRUE, message |-> MsgInvalidDrone, database |-> db,
              fetches |-> 0]
        ELSE IF ~ValidCertHashes(drone)
        THEN [threw |-> TRUE, message |-> MsgInvalidCertHashes,
              database |-> db, fetches |-> 0]
        ELSE IF mintOut.kind # "data"
        THEN [threw |-> TRUE, message |-> MsgMintFailed,
              database |-> stored, fetches |-> 1]
        ELSE [threw |-> FALSE, message |-> "", database |-> stored,
              fetches |-> 1]

\* addMockDrone(drone) on the outcome of its mint call: the store afterwards
\* and the number of fetches made. A rejected fetch, a non-success response,
\* a body that is not JSON and a body without data (response._id throws) all
\* end in the catch of lines 452-458.
addMockDrone(db, drone, mintOut) ==
    IF ~ValidDroneFields(drone)
    THEN [threw |-> TRUE, message |-> MsgInvalidDrone, database |-> db,
          fetches |-> 0]
    ELSE IF ~ValidCertHashes(drone)
    THEN [threw |-> TRUE, message |-> MsgInvalidCertHashes, database |-> db,
          fetches |-> 0]
    ELSE IF mintOut.kind # "data"
    THEN [threw |-> TRUE, message |-> MsgMintFailed, database |-> db,
          fetches |-> 1]
    ELSE [threw |-> FALSE, message |-> "",
          database |->
            [db EXCEPT !.drones =
                Append(@, [_id |-> mintOut.tokenId,
                           permittedZones |-> drone.permittedZones])],
          fetches |-> 1]

\* flightPlan.flightPlan.route.map(point => ({..., finished: false}))
PathOf(route) ==
    [k \in 1..Len(route) |->
        [lat |-> route[k].lat, lon |-> route[k].lon,
         altitude |-> route[k].alt, finished |-> FALSE]]

MsgAuthorizeFailed == "Failed to authorize flight plan on blockchain"

\* the waypoints are stored in the opposite order
PushFlightPlan_m(db, flightPlan) ==
    [db EXCEPT !.flightPlans =
        Append(@, [droneId |-> flightPlan.droneId,
                   path |-> [k \in 1..Len(flightPlan.flightPlan.route) |->
                               PathOf(flightPlan.flightPlan.route)
                                  [Len(flightPlan.flightPlan.route) + 1 - k]],
                   finished |-> FALSE,
                   zones |-> flightPlan.zones])]

\* this.database.flightPlans.push({...}) of lines 514-527: the store
\* afterwards; a plan is identified by its place in the list
PushFlightPlan(db, flightPlan) ==
    [db EXCEPT !.flightPlans =
        Append(@, [droneId |-> flightPlan.droneId,
                   path |-> PathOf(flightPlan.flightPlan.route),
                   finished |-> FALSE,
                   zones |-> flightPlan.zones])]

\* the error is passed on with its own message
authorizeFlightPlan_m(db, flightPlan, pushThrows) ==
    IF ~flightPlan.flightPlan.defined
    THEN [threw |-> TRUE,
          message |-> "Cannot read properties of undefined (reading 'route')",
          database |-> db, ret |-> 0]
    ELSE IF pushThrows
    THEN [threw |-> TRUE, message |-> "Mock error", database |-> db, ret |-> 0]
    ELSE LET after == PushFlightPlan(db, flightPlan)
         IN  [threw |-> FALSE, message |-> "", database |-> after,
              ret |-> Len(after.flightPlans)]

\* authorizeFlightPlan(flightPlan): the argument of push reads
\* flightPlan.flightPlan.route, which throws a TypeError when flightPlan is
\* undefined; push itself throws when pushThrows; the catch of lines 529-535
\* throws the authorization error in both cases. Otherwise the store has the
\* new record and the value returned is the last record of the store, given
\* here by its place.
authorizeFlightPlan(db, flightPlan, pushThrows) ==
    IF ~flightPlan.flightPlan.defined \/ pushThrows
    THEN [threw |-> TRUE, message |-> MsgAuthorizeFailed, database |-> db,
          ret |-> 0]
    ELSE LET after == PushFlightPlan(db, flightPlan)
         IN  [threw |-> FALSE, message |-> "", database |-> after,
              ret |-> Len(after.flightPlans)]

\* the record of a call of authorizeFlightPlan
AuthorizeCall(flightPlan, r) ==
    [op |-> "authorizeFlightPlan", flightPlan |-> flightPlan,
     threw |-> r.threw, message |-> r.message, ret |-> r.ret]

\* POST /addMockDrone; the authority assigns every token id once
AddMockDroneCall ==
    /\ \E drone \in DroneInputs, mintOut \in MintOutcomes :
          /\ \A d \in 1..Len(database.drones) :
                database.drones[d]._id # mintOut.tokenId
          /\ database' = addMockDrone(database, drone, mintOut).database
    /\ UNCHANGED <<call, pre, tel, aut, ext>>

\* the routes of the plans authorized through the service API
ApiRoutes ==
    {[k \in 1..n |-> Position(1, k, 100 * AltScale)] : n \in 0..MaxPath}

\* the flight plans given to authorizeFlightPlan by the users of the service
AuthorizeFlightPlans ==
    [droneId : {"1", "2"},
     flightPlan : {FlightPlanOf(route) : route \in ApiRoutes},
     zones : {<<ZoneType.URBAN>>}]

\* the arguments of the calls of authorizeFlightPlan that return
AuthorizeInputs == [flightPlan : AuthorizeFlightPlans, pushThrows : {FALSE}]

\* the arguments of the calls that throw: the flightPlan member is missing,
\* or push throws
AuthorizeFailingInputs ==
    [flightPlan : [droneId : {"1"},
                   flightPlan : {NoFlightPlan},
                   zones : {<<ZoneType.URBAN>>}],
     pushThrows : {FALSE}]
    \cup [flightPlan : AuthorizeFlightPlans, pushThrows : {TRUE}]

\* a call of authorizeFlightPlan by a user of the service
AuthorizeFlightPlanCall(inputs) ==
    /\ \E in \in inputs :
          LET r == authorizeFlightPlan(database, in.flightPlan, in.pushThrows)
          IN  /\ Len(r.database.flightPlans) <= MaxPlans
              /\ database' = r.database
              /\ call' = AuthorizeCall(in.flightPlan, r)
    /\ UNCHANGED <<pre, tel, aut, ext>>

\* the store under the calls of its users, failing calls included
NextStore ==
    \/ AddMockDroneCall
    \/ AuthorizeFlightPlanCall(AuthorizeInputs \cup AuthorizeFailingInputs)

SpecStore == Init /\ [][NextStore]_vars

-----------------------------------------------------------------------------
(* simulateDroneTelemetry: @Cron('*/1 * * * *')                            *)
(*                                                                         *)
(* The cron fires every minute whether or not an earlier invocation has    *)
(* returned. An invocation of t is suspended at the setTimeout of each     *)
(* step ("delay"), at the fetch of sendViolation ("violation") and at the  *)
(* fetch of completeFlightPlan ("completing").                             *)

\* this.database.flightPlans.filter(plan => !plan.finished): the plans are
\* held by reference, here by their place in the store
UnfinishedPlans(db) ==
    SelectSeq([p \in 1..Len(db.flightPlans) |-> p],
              LAMBDA p : ~db.flightPlans[p].finished)

RECURSIVE EnterPlan(_, _, _)
\* the head of the loop over the filtered plans, at calculatedIndex ci (from
\* 1): a plan without path is skipped; the first step of the next plan
\* awaits its timeout; past the last plan the invocation returns
EnterPlan(db, plans, ci) ==
    IF ci > Len(plans) THEN IdleTel
    ELSE IF Len(db.flightPlans[plans[ci]].path) = 0
    THEN EnterPlan(db, plans, ci + 1)
    ELSE [pc |-> "delay", plans |-> plans, ci |-> ci, i |-> 0,
          routePoint |-> 0]

\* the last unreached waypoint is taken instead of the first
FindFirstUnfinished_m(path) ==
    IF \E k \in 1..Len(path) : ~path[k].finished
    THEN CHOOSE k \in 1..Len(path) :
            /\ ~path[k].finished
            /\ \A j \in (k + 1)..Len(path) : path[j].finished
    ELSE 0

\* flightPlan.path.findIndex(point => !point.finished), from 1; 0 for -1
FindFirstUnfinished(path) ==
    IF \E k \in 1..Len(path) : ~path[k].finished
    THEN CHOOSE k \in 1..Len(path) :
            /\ ~path[k].finished
            /\ \A j \in 1..(k - 1) : path[j].finished
    ELSE 0

\* the waypoint is marked and every other one unmarked
MarkFinished_m(path, routePoint) ==
    [k \in 1..Len(path) |-> [path[k] EXCEPT !.finished = (k = routePoint)]]

\* flightPlan.path[routePoint].finished = true
MarkFinished(path, routePoint) ==
    [path EXCEPT ![routePoint].finished = TRUE]

\* the first waypoint counts as reached
AllReached_m(routePoint) == routePoint <= 1

\* routePoint === -1 (line 1077)
AllReached(routePoint) == routePoint = 0

\* only the first step of a plan reports a violation
IsViolationStep_m(i) == i = 0

\* i % 30 === 0 (line 1088)
IsViolationStep(i) == i % ViolationEvery = 0

\* finishing a plan clears its zones
MarkPlanFinished_m(flightPlan) ==
    [flightPlan EXCEPT !.finished = TRUE, !.zones = <<>>]

\* flightPlan.finished = true
MarkPlanFinished(flightPlan) ==
    [flightPlan EXCEPT !.finished = TRUE]

\* the end of a step: i++ and the next timeout, or the next plan
NextStep(db, self) ==
    IF self.i + 1 < TelemetrySteps
    THEN [self EXCEPT !.pc = "delay", !.i = @ + 1, !.routePoint = 0]
    ELSE EnterPlan(db, self.plans, self.ci + 1)

\* the cron fires: the unfinished plans are filtered and the first step
\* starts; invocations are interchangeable, a new one takes the first free
\* place of tel
TelStart(t) ==
    /\ tel[t].pc = "idle"
    /\ \A u \in 1..(t - 1) : tel[u].pc # "idle"
    /\ LET plans == UnfinishedPlans(database)
       IN  tel' = [tel EXCEPT ![t] =
                      IF Len(plans) = 0 THEN IdleTel
                      ELSE EnterPlan(database, plans, 1)]
    /\ UNCHANGED <<call, pre, database, aut, ext>>

\* the timeout of a step has elapsed: lines 1065-1116 up to the next await
TelStep(t) ==
    /\ tel[t].pc = "delay"
    /\ LET self == tel[t]
           p == self.plans[self.ci]
           flightPlan == database.flightPlans[p]
           hasDrone == \E d \in 1..Len(database.drones) :
                          database.drones[d]._id = flightPlan.droneId
           routePoint == FindFirstUnfinished(flightPlan.path)
       IN  IF ~hasDrone
           THEN /\ tel' = [tel EXCEPT ![t] = IdleTel]
                /\ UNCHANGED <<database, ext>>
           ELSE IF AllReached(routePoint)
           THEN /\ database' = [database EXCEPT !.flightPlans[p] =
                                    MarkPlanFinished(@)]
                /\ ext' = [ext EXCEPT !.routeLogs[p] = @ + 1]
                /\ tel' = [tel EXCEPT ![t].pc = "completing"]
           ELSE IF IsViolationStep(self.i)
           THEN /\ tel' = [tel EXCEPT ![t].pc = "violation",
                                      ![t].routePoint = routePoint]
                /\ UNCHANGED <<database, ext>>
           ELSE LET db == [database EXCEPT !.flightPlans[p].path =
                              MarkFinished(@, routePoint)]
                IN  /\ database' = db
                    /\ tel' = [tel EXCEPT ![t] = NextStep(db, self)]
                    /\ UNCHANGED ext
    /\ UNCHANGED <<call, pre, aut>>

\* sendViolation has returned: the waypoint found before the call is marked
TelViolationSent(t) ==
    /\ tel[t].pc = "violation"
    /\ LET self == tel[t]
           p == self.plans[self.ci]
           db == [database EXCEPT !.flightPlans[p].path =
                     MarkFinished(@, self.routePoint)]
       IN  /\ database' = db
           /\ tel' = [tel EXCEPT ![t] = NextStep(db, self)]
    /\ UNCHANGED <<call, pre, aut, ext>>

\* sendViolation has thrown (the fetch rejected or answered non-success):
\* nothing catches it and the invocation ends
TelViolationFailed(t) ==
    /\ tel[t].pc = "violation"
    /\ tel' = [tel EXCEPT ![t] = IdleTel]
    /\ UNCHANGED <<call, pre, database, aut, ext>>

\* completeFlightPlan has returned or thrown: the invocation ends either way
TelCompleted(t) ==
    /\ tel[t].pc = "completing"
    /\ tel' = [tel EXCEPT ![t] = IdleTel]
    /\ UNCHANGED <<call, pre, database, aut, ext>>

Telemetry(t) ==
    \/ TelStart(t)
    \/ TelStep(t)
    \/ TelViolationSent(t)
    \/ TelViolationFailed(t)
    \/ TelCompleted(t)

NextTel ==
    \/ AddMockDroneCall
    \/ AuthorizeFlightPlanCall(AuthorizeInputs)
    \/ \E t \in 1..MaxTelTicks : Telemetry(t)

\* the telemetry loop, with overlapping invocations, over a store filled
\* through the service API
SpecTel == Init /\ [][NextTel]_vars

\* the flight plans of one drone
TickFlightPlans ==
    {fp \in AuthorizeFlightPlans : fp.droneId = "1"}

\* a call of authorizeFlightPlan that stores one more plan of that drone
AuthorizeTickPlanCall ==
    /\ \E flightPlan \in TickFlightPlans :
          LET r == authorizeFlightPlan(database, flightPlan, FALSE)
          IN  /\ Len(r.database.flightPlans) <= MaxPlans + 1
              /\ database' = r.database
              /\ call' = AuthorizeCall(flightPlan, r)
    /\ UNCHANGED <<pre, tel, aut, ext>>

NextTick ==
    \/ AddMockDroneCall
    \/ AuthorizeTickPlanCall
    \/ Telemetry(1)

\* one telemetry invocation at a time, over a store that holds several plans
SpecTick == Init /\ [][NextTick]_vars

\* routes of the lengths the authorization loop stores, scaled down: a short
\* one, and one that a single tick of TelemetrySteps steps cannot finish
LongRoutes ==
    {[k \in 1..n |-> Position(1, 1, 100 * AltScale)] :
        n \in {MaxPath, TelemetrySteps + 1}}

\* the flight plans of one drone over those routes
LongFlightPlans ==
    [droneId : {"1"},
     flightPlan : {FlightPlanOf(route) : route \in LongRoutes},
     zones : {<<ZoneType.URBAN>>}]

\* a call of authorizeFlightPlan that stores such a plan
AuthorizeLongPlanCall ==
    /\ \E flightPlan \in LongFlightPlans :
          LET r == authorizeFlightPlan(database, flightPlan, FALSE)
          IN  /\ Len(r.database.flightPlans) <= MaxPlans + 1
              /\ database' = r.database
              /\ call' = AuthorizeCall(flightPlan, r)
    /\ UNCHANGED <<pre, tel, aut, ext>>

NextLong ==
    \/ AddMockDroneCall
    \/ AuthorizeLongPlanCall
    \/ Telemetry(1)

\* one telemetry invocation at a time over plans that take more than one
\* tick
SpecLong == Init /\ [][NextLong]_vars

-----------------------------------------------------------------------------
(* generateMockFlightPlan *)

\* the active flag of the zones is not looked at
TargetZone_m(permittedZones, valid, zonesLimits) ==
    LET match(z) ==
            IF ~valid
            THEN Includes(permittedZones, ZoneType.RESTRICTED)
            ELSE Includes(permittedZones, ZoneTypeLookup(z.zoneType))
    IN  IF \E k \in 1..Len(zonesLimits) : match(zonesLimits[k])
        THEN CHOOSE k \in 1..Len(zonesLimits) :
                /\ match(zonesLimits[k])
                /\ \A j \in 1..(k - 1) : ~match(zonesLimits[j])
        ELSE 0

\* the zone the first point is drawn in (zonesLimits.find, lines 802-807):
\* its place in the list, 0 when there is none
TargetZone(permittedZones, valid, zonesLimits) ==
    LET match(z) ==
            IF ~valid
            THEN Includes(permittedZones, ZoneType.RESTRICTED) /\ z.isActive
            ELSE Includes(permittedZones, ZoneTypeLookup(z.zoneType))
                 /\ z.isActive
    IN  IF \E k \in 1..Len(zonesLimits) : match(zonesLimits[k])
        THEN CHOOSE k \in 1..Len(zonesLimits) :
                /\ match(zonesLimits[k])
                /\ \A j \in 1..(k - 1) : ~match(zonesLimits[j])
        ELSE 0

\* the fallback point of lines 814-818, on the grid: lat in [40.7, 40.8),
\* lon in [-74.0, -73.9), alt in [100, 150)
FallbackPoints ==
    {Position(40, -74, alt) : alt \in {100 * AltScale, 150 * AltScale - 1}}

\* Math.random() * (max - min) + min: the least and the greatest value
AltitudeSamples(zone) ==
    IF zone.maxAltitude > zone.minAltitude
    THEN {zone.minAltitude, zone.maxAltitude - 1}
    ELSE {zone.minAltitude}

\* turf.bbox of the ring, then the points turf.randomPoint may draw in it
\* that booleanPointInPolygon accepts (the do-while of lines 836-843), each
\* with an altitude of the zone's band
PointsInTarget(zone) ==
    LET ring == RingOf(PushClosing(zone).boundaries)
        xs == {ring[k][1] : k \in 1..Len(ring)}
        ys == {ring[k][2] : k \in 1..Len(ring)}
        minOf(S) == CHOOSE v \in S : \A w \in S : v <= w
        maxOf(S) == CHOOSE v \in S : \A w \in S : v >= w
    IN  {Position(y, x, alt) :
            x \in {v \in minOf(xs)..maxOf(xs) :
                     \E w \in minOf(ys)..maxOf(ys) : InRing(v, w, ring)},
            y \in minOf(ys)..maxOf(ys),
            alt \in AltitudeSamples(zone)}
        \cap {pt \in [lat : minOf(ys)..maxOf(ys), lon : minOf(xs)..maxOf(xs),
                      alt : AltitudeSamples(zone)] :
                InRing(pt.lon, pt.lat, ring)}

\* the first points generateMockFlightPlan may produce
FirstPoints(permittedZones, valid, zonesLimits) ==
    LET k == TargetZone(permittedZones, valid, zonesLimits)
    IN  IF k = 0 THEN FallbackPoints ELSE PointsInTarget(zonesLimits[k])

\* the altitude of point i (from 0) after prevPoint: lines 872-875, where
\* i < numPoints / 1.5 is 3 * i < 2 * numPoints
NextAltitude(prevAlt, i, numPoints, valid, drift) ==
    IF ~valid /\ 2 * i > numPoints /\ 3 * i < 2 * numPoints
    THEN prevAlt + AltitudeJump * AltScale
    ELSE prevAlt + drift

RECURSIVE ExtendRoute(_, _, _, _)
\* the loop of lines 798-880 past the first point: rnd holds the draws
\* numPoints, move (the step of turf.destination on the grid) and drift (the
\* small altitude change)
ExtendRoute(flightPlan, i, valid, rnd) ==
    IF i >= rnd.numPoints THEN flightPlan
    ELSE LET prevPoint == flightPlan[i]
             point == Position(prevPoint.lat + rnd.move[1],
                               prevPoint.lon + rnd.move[2],
                               NextAltitude(prevPoint.alt, i, rnd.numPoints,
                                            valid, rnd.drift))
         IN  ExtendRoute(Append(flightPlan, point), i + 1, valid, rnd)

\* generateMockFlightPlan({permittedZones, valid}) on the zone list retrieved
\* and the random draws rnd (numPoints, first, move, drift)
generateMockFlightPlan(valid, rnd) ==
    ExtendRoute(<<rnd.first>>, 1, valid, rnd)

\* the draws of the random source the scheduler is checked with: the least
\* numPoints, one first point, a walk that stays in its grid cell
\* (turf.destination moves at most 0.01 km) at a level altitude
SchedulerDraws(permittedZones, valid, zonesLimits) ==
    LET firsts == FirstPoints(permittedZones, valid, zonesLimits)
    IN  [numPoints : {MinPoints},
         first : {CHOOSE pt \in firsts : TRUE},
         move : {<<0, 0>>},
         drift : {0}]

-----------------------------------------------------------------------------
(* simulateFlightPlansAuthorization: @Cron('30 * * * * *')                 *)
(*                                                                         *)
(* The fetches of an invocation answer within the minute, so that one      *)
(* invocation is under way at a time. It is suspended at each fetch: of    *)
(* addMockOperator ("op_info", "op_rep", "op_reg"), of addMockDrone        *)
(* ("mint"), of the zone retrieval of generateMockFlightPlan ("gen"), of   *)
(* the zone retrieval of getRouteCharacteristics ("char") and of the two   *)
(* fetches of preAuthorization ("pre_zones", "pre_perm").                  *)

\* the drone inputs of lines 918-958, one per length check
SchedulerDrone ==
    [model |-> "Mock Drone Model", droneType |-> "MEDICAL",
     permittedZones |-> <<ZoneType.URBAN, ZoneType.RURAL>>,
     operatorId |-> "0xoperator", certHashes |-> <<"cert-hash-1">>]

\* the token ids the authority assigns, in order
TokenIds == <<"1", "2", "3">>

\* the mint outcomes offered to the scheduler: a failure, or the next token id
SchedulerMintOutcomes(db) ==
    [kind : {"reject", "notok"}, tokenId : {UNDEFINED}]
    \cup {[kind |-> "data", tokenId |-> TokenIds[Len(db.drones) + 1]] :
            x \in {y \in {1} : Len(db.drones) < Len(TokenIds)}}

\* what the zone endpoint answers the scheduler with: a failure or a list
SchedulerZoneOutcomes ==
    {z \in ZoneOutcomes :
        \/ z.kind = "reject" /\ z.message = "Network error"
        \/ z.kind = "data" /\ Len(z.zones) > 0}

\* what the permission endpoint answers the scheduler with
SchedulerPermOutcomes ==
    {o \in PermOutcomes :
        \/ o.kind = "reject" /\ o.message = "Network error"
        \/ o.kind \in {"nodata", "data"} /\ o.ok}

\* every decision counts as approved
IsApproved_m(response) ==
    TRUE

\* response.preauthorizationStatus === PreAuthorizationStatus.APPROVED
IsApproved(response) ==
    response.preauthorizationStatus = PreAuthorizationStatus.APPROVED

\* lines 1004-1007: the zones stored with the plan
SchedulerZones(zones) ==
    IF Len(zones) > 0 THEN zones ELSE <<ZoneType.RESTRICTED>>

\* the start of attempt i (from 0): past the last attempt the invocation
\* returns; else a drone is drawn and the route generation retrieves the zones
StartAttempt(db, self, i, droneIndex) ==
    IF i >= Attempts THEN IdleAut
    ELSE [self EXCEPT !.pc = "gen", !.i = i, !.droneIndex = droneIndex,
                      !.route = <<>>, !.flightPlan = NoAuthPlan,
                      !.rc = Throw("")]

RECURSIVE DroneChecks(_, _, _)
\* the length checks of lines 917, 931, 946 from check k on: the first one
\* that holds starts a mint; past the last one the attempts start
DroneChecks(db, self, k) ==
    IF k >= 3 THEN [self EXCEPT !.pc = "attempts", !.k = 0]
    ELSE IF Len(db.drones) = k THEN [self EXCEPT !.pc = "mint", !.k = k]
    ELSE DroneChecks(db, self, k + 1)

\* the cron fires while no invocation is under way
AutStart ==
    /\ aut.pc = "idle"
    /\ aut' = IF Len(database.operators) = 0
              THEN [IdleAut EXCEPT !.pc = "op_info"]
              ELSE DroneChecks(database, IdleAut, 0)
    /\ UNCHANGED <<call, pre, database, tel, ext>>

\* addMockOperator, the answer of /api/operators/info: a failure is logged
\* and the registration follows; a registered operator is stored if the store
\* is empty and its reputation is asked for
AutOperatorInfo ==
    /\ aut.pc = "op_info"
    /\ \E info \in {"failed", "registered", "unregistered"} :
          IF info = "registered"
          THEN /\ database' =
                    IF Len(database.operators) = 0
                    THEN [database EXCEPT !.operators =
                             Append(@, [address |-> "0xoperator"])]
                    ELSE database
               /\ aut' = [aut EXCEPT !.pc = "op_rep"]
          ELSE /\ aut' = [aut EXCEPT !.pc = "op_reg"]
               /\ UNCHANGED database
    /\ UNCHANGED <<call, pre, tel, ext>>

\* addMockOperator, the answer of /api/operators/reputation: on success it
\* returns; its failure is thrown inside the outer try, whose catch logs it,
\* and the registration follows
AutOperatorReputation ==
    /\ aut.pc = "op_rep"
    /\ \E ok \in BOOLEAN :
          aut' = IF ok THEN DroneChecks(database, aut, 0)
                 ELSE [aut EXCEPT !.pc = "op_reg"]
    /\ UNCHANGED <<call, pre, database, tel, ext>>

\* addMockOperator, the answer of /api/operators/register: on success the
\* operator is stored; a failure is thrown out of the invocation
AutOperatorRegister ==
    /\ aut.pc = "op_reg"
    /\ \E ok \in BOOLEAN :
          IF ok
          THEN LET db == [database EXCEPT !.operators =
                             Append(@, [address |-> "0xoperator"])]
               IN  /\ database' = db
                   /\ aut' = DroneChecks(db, aut, 0)
          ELSE /\ aut' = IdleAut
               /\ UNCHANGED database
    /\ UNCHANGED <<call, pre, tel, ext>>

\* addMockDrone has returned or thrown for length check k
AutMint ==
    /\ aut.pc = "mint"
    /\ \E mintOut \in SchedulerMintOutcomes(database) :
          LET r == addMockDrone(database, SchedulerDrone, mintOut)
          IN  IF r.threw
              THEN /\ aut' = IdleAut
                   /\ UNCHANGED database
              ELSE /\ database' = r.database
                   /\ aut' = DroneChecks(r.database, aut, aut.k + 1)
    /\ UNCHANGED <<call, pre, tel, ext>>

\* the first attempt starts: a drone is drawn
AutAttempts ==
    /\ aut.pc = "attempts"
    /\ \E droneIndex \in 1..Len(database.drones) :
          aut' = StartAttempt(database, aut, 0, droneIndex)
    /\ UNCHANGED <<call, pre, database, tel, ext>>

\* generateMockFlightPlan has retrieved the zones, or failed to: a failure is
\* thrown out of the invocation
AutGenerateOn(zoneOutcomes) ==
    /\ aut.pc = "gen"
    /\ \E zoneOut \in zoneOutcomes :
          LET limits == getZonesLimits(zoneOut)
              valid == aut.i < ValidAttempts
              permittedZones == database.drones[aut.droneIndex].permittedZones
          IN  IF limits.threw \/ ~limits.value.defined
              THEN aut' = IdleAut
              ELSE \E rnd \in SchedulerDraws(permittedZones, valid,
                                             limits.value.zones) :
                      aut' = [aut EXCEPT
                                 !.pc = "char",
                                 !.route = generateMockFlightPlan(valid, rnd)]
    /\ UNCHANGED <<call, pre, database, tel, ext>>

\* getRouteCharacteristics has returned or thrown (lines 980-1008): the
\* flight plan submitted next carries the id of the LAST drone of the store
AutCharacterizeOn(zoneOutcomes) ==
    /\ aut.pc = "char"
    /\ \E zoneOut \in zoneOutcomes :
          LET rc == getRouteCharacteristics(
                        [droneId |-> database.drones[aut.droneIndex]._id,
                         flightPlan |-> FlightPlanOf(aut.route)], zoneOut)
          IN  IF rc.threw
              THEN aut' = IdleAut
              ELSE aut' = [aut EXCEPT
                              !.pc = "pre_zones",
                              !.flightPlan =
                                  [droneId |->
                                      database.drones[Len(database.drones)]._id,
                                   flightPlan |-> FlightPlanOf(aut.route),
                                   zones |-> SchedulerZones(rc.value.zones)]]
    /\ UNCHANGED <<call, pre, database, tel, ext>>

\* preAuthorization, called at line 1009, has its route characteristics:
\* getRouteCharacteristics has returned or thrown inside it
AutPreZonesOn(zoneOutcomes) ==
    /\ aut.pc = "pre_zones"
    /\ \E zoneOut \in zoneOutcomes :
          aut' = [aut EXCEPT
                     !.pc = "pre_perm",
                     !.rc = getRouteCharacteristics(aut.flightPlan, zoneOut)]
    /\ UNCHANGED <<call, pre, database, tel, ext>>

\* preAuthorization has returned (lines 1009-1023): an approved plan is
\* authorized; the next attempt starts. The authority approves no plan that
\* would take the store past MaxPlans.
AutDecisionOn(permOutcomes) ==
    /\ aut.pc = "pre_perm"
    /\ \E permOut \in permOutcomes,
          droneIndex \in 1..Len(database.drones) :
          LET response == PreSubmit(aut.flightPlan, aut.rc, permOut).ret
              r == authorizeFlightPlan(database, aut.flightPlan, FALSE)
              db == IF IsApproved(response) THEN r.database ELSE database
          IN  /\ Len(db.flightPlans) <= MaxPlans
              /\ database' = db
              /\ call' = IF IsApproved(response)
                         THEN AuthorizeCall(aut.flightPlan, r)
                         ELSE call
              /\ aut' = [StartAttempt(db, aut, aut.i + 1, droneIndex)
                            EXCEPT !.response = response]
    /\ UNCHANGED <<pre, tel, ext>>

\* the attempts of the loop on the answers the endpoints give the scheduler
AutGenerate == AutGenerateOn(SchedulerZoneOutcomes)

AutCharacterize == AutCharacterizeOn(SchedulerZoneOutcomes)

AutPreZones == AutPreZonesOn(SchedulerZoneOutcomes)

AutDecision == AutDecisionOn(SchedulerPermOutcomes)

NextAut ==
    \/ AutStart
    \/ AutOperatorInfo
    \/ AutOperatorReputation
    \/ AutOperatorRegister
    \/ AutMint
    \/ AutAttempts
    \/ AutGenerate
    \/ AutCharacterize
    \/ AutPreZones
    \/ AutDecision

SpecAut == Init /\ [][NextAut]_vars

-----------------------------------------------------------------------------
(* Zone geometry: getRouteCharacteristics and generateMockFlightPlan       *)
(* called on their own                                                     *)

\* the fetched zone objects after getRouteCharacteristics(request): every
\* check has changed the zone it checked
CharacterizedZones(request, zoneOut) ==
    LET limits == getZonesLimits(zoneOut)
    IN  IF limits.threw \/ ~limits.value.defined THEN <<>>
        ELSE IF ~request.flightPlan.defined
                \/ Len(request.flightPlan.route) = 0
        THEN limits.value.zones
        ELSE RouteForEach(request.flightPlan.route, 1, limits.value.zones,
                          <<>>).zonesLimits

\* the fetched zone objects after generateMockFlightPlan: the target zone of
\* the first point has been closed in place (lines 823-825)
GeneratedZones(permittedZones, valid, zonesLimits) ==
    LET k == TargetZone(permittedZones, valid, zonesLimits)
    IN  IF k = 0 THEN zonesLimits
        ELSE [zonesLimits EXCEPT ![k] = PushClosing(@)]

\* route points: inside the urban zone within its altitude band, inside it
\* above the band at a fractional altitude, inside the restricted zone, and
\* outside every active zone
RoutePoints ==
    { Position(1, 1, 100 * AltScale),
      Position(1, 1, 180 * AltScale + 1),
      Position(4, 4, 30 * AltScale),
      Position(3, 2, 120 * AltScale),
      Position(3, 1, 50 * AltScale) }

RECURSIVE RoutesOfLength(_)
RoutesOfLength(n) ==
    IF n = 0 THEN {<<>>}
    ELSE {Append(r, pt) : r \in RoutesOfLength(n - 1), pt \in RoutePoints}

\* the routes of up to MaxRoute points
Routes == UNION {RoutesOfLength(n) : n \in 0..MaxRoute}

\* the permittedZones of the drones the generator is called for
PermittedZoneLists ==
    { <<ZoneType.URBAN, ZoneType.RURAL>>, <<ZoneType.MILITARY>>,
      <<ZoneType.RESTRICTED>>, <<ZoneType.HOSPITALS>> }

\* a call of getRouteCharacteristics
CharacterizeCall ==
    /\ \E request \in [droneId : {"1"},
                       flightPlan : {NoFlightPlan}
                                    \cup {FlightPlanOf(r) : r \in Routes}],
          zoneOut \in ZoneOutcomes :
          call' = [op |-> "getRouteCharacteristics", request |-> request,
                   zoneOut |-> zoneOut,
                   out |-> getRouteCharacteristics(request, zoneOut),
                   zonesAfter |-> CharacterizedZones(request, zoneOut)]
    /\ UNCHANGED <<pre, database, tel, aut, ext>>

\* a call of generateMockFlightPlan: the zone retrieval throws, or the route
\* is generated from the zones retrieved
GenerateCall ==
    /\ \E permittedZones \in PermittedZoneLists, valid \in BOOLEAN,
          zoneOut \in ZoneOutcomes :
          LET limits == getZonesLimits(zoneOut)
              failed == limits.threw \/ ~limits.value.defined
              zones == IF failed THEN <<>> ELSE limits.value.zones
          IN  \E rnd \in SchedulerDraws(permittedZones, valid, zones) :
                 call' = [op |-> "generateMockFlightPlan",
                          permittedZones |-> permittedZones, valid |-> valid,
                          zoneOut |-> zoneOut, threw |-> failed,
                          target |-> IF failed THEN 0
                                     ELSE TargetZone(permittedZones, valid,
                                                     zones),
                          route |-> IF failed THEN <<>>
                                    ELSE generateMockFlightPlan(valid, rnd),
                          zonesAfter |-> GeneratedZones(permittedZones, valid,
                                                        zones)]
    /\ UNCHANGED <<pre, database, tel, aut, ext>>

NextGeo == CharacterizeCall \/ GenerateCall

SpecGeo == Init /\ [][NextGeo]_vars

-----------------------------------------------------------------------------
(* Claims about preAuthorization (checked under SpecPre) *)

\* the status a returned decision carries: the authority's
\* preauthorizationStatus, or the catch block's preauthorization_status
StatusOf(ret) ==
    IF ret.preauthorizationStatus # UNDEFINED THEN ret.preauthorizationStatus
    ELSE ret.preauthorization_status

\* the request passes validation and the zones endpoint answers with a list
ReachesSubmission ==
    /\ ~Falsy(pre.request.droneId)
    /\ pre.request.flightPlan.defined
    /\ pre.zoneOut.kind = "data"

\* the error that ends the call, read off the request and the two outcomes
TriggeringError ==
    IF Falsy(pre.request.droneId) \/ ~pre.request.flightPlan.defined
    THEN [raised |-> TRUE, message |-> MsgInvalidRequest]
    ELSE IF pre.zoneOut.kind \in {"reject", "badjson"}
    THEN [raised |-> TRUE, message |-> pre.zoneOut.message]
    ELSE IF pre.zoneOut.kind = "notok"
    THEN [raised |-> TRUE, message |-> "Failed to retrieve zone limits"]
    ELSE IF pre.zoneOut.kind = "nodata" /\ Len(pre.request.flightPlan.route) > 0
    THEN [raised |-> TRUE,
          message |-> "Cannot read properties of undefined (reading 'forEach')"]
    ELSE IF pre.permOut.kind \in {"reject", "badjson"}
    THEN [raised |-> TRUE, message |-> pre.permOut.message]
    ELSE IF pre.permOut.kind = "nodata"
    THEN [raised |-> TRUE,
          message |-> "Cannot read properties of undefined (reading 'preauthorizationStatus')"]
    ELSE [raised |-> FALSE, message |-> ""]

C2_Theorem ==
    (pre.called
     /\ (pre.request.droneId = UNDEFINED \/ ~pre.request.flightPlan.defined)) =>
        /\ ~pre.out.threw
        /\ pre.out.ret.preauthorization_status = "FAILED"
        /\ pre.out.ret.droneId = pre.request.droneId
        /\ pre.out.ret.reason = MsgInvalidRequest
        /\ pre.out.zoneCalls = 0
        /\ pre.out.submitted = <<>>

\* a request with a droneId and no flightPlan was answered
C2_Witness ==
    /\ pre.called
    /\ pre.request.droneId = "1"
    /\ ~pre.request.flightPlan.defined
    /\ pre.out.ret.preauthorization_status = "FAILED"
    /\ pre.out.ret.droneId = "1"

\* C3 (as claimed): a request with a non-empty droneId and a flightPlan whose
\* route is empty gets a FAILED decision with the droneId-and-flightPlan-
\* required reason, and nothing is submitted to the route-permission authority.
\* Stated for the calls in which both collaborators answer with success,
\* where a request that passed validation goes all the way to the authority.
C3_Claim ==
    (pre.called
     /\ ~Falsy(pre.request.droneId)
     /\ pre.request.flightPlan.defined
     /\ pre.request.flightPlan.route = <<>>
     /\ pre.zoneOut.kind = "data"
     /\ pre.permOut.kind = "data"
     /\ pre.permOut.ok) =>
        /\ pre.out.ret.preauthorization_status = "FAILED"
        /\ pre.out.ret.reason = MsgInvalidRequest
        /\ pre.out.submitted = <<>>

\* C4 (as claimed): when the route-permission authority answers with a
\* non-success response, the returned decision has status FAILED, never
\* APPROVED, whatever the body.
C4_Claim ==
    (pre.called
     /\ ReachesSubmission
     /\ pre.permOut.kind \in {"badjson", "nodata", "data"}
     /\ ~pre.permOut.ok) =>
        StatusOf(pre.out.ret) = "FAILED"

\* a point of the route lies in the polygon of an active zone of the list
RouteHitsActiveZone(route, zones) ==
    \E p \in 1..Len(route), k \in 1..Len(zones) :
        /\ zones[k].isActive
        /\ InRing(route[p].lon, route[p].lat, RingOf(zones[k].boundaries))

\* C5: every characterization submitted to the route-permission authority has
\* a non-empty zone set: the characterized set when the route intersects an
\* active zone, and exactly {restricted} when it intersects none.
C5_Theorem ==
    pre.called =>
        \A k \in 1..Len(pre.out.submitted) :
            LET body == pre.out.submitted[k]
                rc == getRouteCharacteristics(pre.request, pre.zoneOut)
            IN  /\ Len(body.zones) > 0
                /\ IF RouteHitsActiveZone(pre.request.flightPlan.route,
                                          pre.zoneOut.zones)
                   THEN Len(rc.value.zones) > 0 /\ body.zones = rc.value.zones
                   ELSE body.zones = <<"restricted">>

\* a route through no active zone of a non-empty zone list was submitted with
\* the zone set {restricted}
C5_Witness ==
    /\ pre.called
    /\ Len(pre.request.flightPlan.route) > 0
    /\ Len(pre.zoneOut.zones) > 0
    /\ Len(pre.out.submitted) = 1
    /\ pre.out.submitted[1].zones = <<"restricted">>
    /\ ~RouteHitsActiveZone(pre.request.flightPlan.route, pre.zoneOut.zones)

\* the authority was asked and answered with a decision
AuthorityDecided ==
    /\ pre.called
    /\ Len(pre.out.submitted) = 1
    /\ pre.permOut.kind = "data"

\* C19: when the route-permission authority answers with a decision,
\* preAuthorization returns that decision and raises nothing: the returned
\* status is APPROVED exactly when the authority's is, and the returned
\* droneId and reason are the authority's, whatever the request's droneId.
C19_Theorem ==
    AuthorityDecided =>
        /\ ~pre.out.failed
        /\ (pre.out.ret.preauthorizationStatus = PreAuthorizationStatus.APPROVED)
              <=> (pre.permOut.data.preauthorizationStatus
                      = PreAuthorizationStatus.APPROVED)
        /\ pre.out.ret.droneId = pre.permOut.data.droneId
        /\ pre.out.ret.reason = pre.permOut.data.reason

\* the authority refused a request of drone "1" in a decision naming drone
\* "2", and the controller answered with that decision
C19_Witness ==
    /\ AuthorityDecided
    /\ pre.request.droneId = "1"
    /\ pre.permOut.data.droneId = "2"
    /\ pre.permOut.data.preauthorizationStatus = PreAuthorizationStatus.FAILED
    /\ pre.out.ret.droneId = "2"
    /\ pre.out.ret.preauthorizationStatus = PreAuthorizationStatus.FAILED
    /\ pre.out.ret.reason = "decided by the authority"

-----------------------------------------------------------------------------
(* Claims about the telemetry loop (checked under SpecTel) *)

\* invocation t is suspended inside the step loop of plan p
Advancing(t, p) ==
    /\ tel[t].pc # "idle"
    /\ tel[t].plans[tel[t].ci] = p

\* C6: in every reachable state, also while telemetry invocations overlap on
\* the same plan, the waypoints marked reached form a prefix of the route:
\* waypoint k+1 is marked only if waypoint k is.
C6_Theorem ==
    \A p \in 1..Len(database.flightPlans) :
        LET path == database.flightPlans[p].path
        IN  \A k \in 1..(Len(path) - 1) :
                path[k + 1].finished => path[k].finished

\* two invocations are inside the step loop of the same plan, one of them
\* still waiting for its violation report on waypoint 1, and the plan's
\* second waypoint is marked reached
C6_Witness ==
    \E p \in 1..Len(database.flightPlans), t \in 1..MaxTelTicks,
       u \in 1..MaxTelTicks :
        /\ t # u
        /\ Advancing(t, p)
        /\ Advancing(u, p)
        /\ tel[t].pc = "violation"
        /\ tel[t].routePoint = 1
        /\ Len(database.flightPlans[p].path) >= 2
        /\ database.flightPlans[p].path[2].finished

\* C7 (as claimed): for every flight plan, over any execution of the
\* telemetry loop, overlapping ticks included, the completion record (route
\* log) is emitted at most once.
C7_Claim ==
    \A p \in 1..MaxPlans : ext.routeLogs[p] <= 1

\* invocation t has begun a step of plan p and has not finished the plan: it
\* waits for a violation report to be sent, or for the timeout of a later step
MidPlan(t, p) ==
    /\ Advancing(t, p)
    /\ \/ tel[t].pc = "violation"
       \/ tel[t].pc = "delay" /\ tel[t].i > 0

\* C8 (as claimed): at no time are two invocations of the telemetry loop both
\* in the middle of advancing the same flight plan.
C8_Claim ==
    \A t \in 1..MaxTelTicks, u \in 1..MaxTelTicks :
        \A p \in 1..Len(database.flightPlans) :
            (MidPlan(t, p) /\ MidPlan(u, p)) => t = u

\* the plans of the store keep their place and their contents from one state
\* to the next, and no reached or finished mark is taken back
StoreGrows(old, new) ==
    /\ Len(new) >= Len(old)
    /\ \A p \in 1..Len(old) :
          /\ new[p].droneId = old[p].droneId
          /\ new[p].zones = old[p].zones
          /\ Len(new[p].path) = Len(old[p].path)
          /\ old[p].finished => new[p].finished
          /\ \A k \in 1..Len(old[p].path) :
                /\ new[p].path[k].lat = old[p].path[k].lat
                /\ new[p].path[k].lon = old[p].path[k].lon
                /\ new[p].path[k].altitude = old[p].path[k].altitude
                /\ old[p].path[k].finished => new[p].path[k].finished

\* C10: the flight plan store is monotonic: a plan once stored is never
\* removed or replaced, a waypoint marked reached is never unmarked, and a
\* plan marked finished never becomes unfinished again, over any sequence of
\* authorizations and telemetry invocations.
C10_Theorem ==
    [][StoreGrows(database.flightPlans, database'.flightPlans)]_vars

\* every telemetry invocation has returned and a stored plan of MaxPath
\* waypoints has all of them marked reached and is marked finished
C10_Witness ==
    /\ \A t \in 1..MaxTelTicks : tel[t].pc = "idle"
    /\ \E p \in 1..Len(database.flightPlans) :
          LET plan == database.flightPlans[p]
          IN  /\ plan.finished
              /\ Len(plan.path) = MaxPath
              /\ \A k \in 1..Len(plan.path) : plan.path[k].finished

-----------------------------------------------------------------------------
(* Claims about the authorization loop (checked under SpecAut) *)

\* the step is the end of an attempt: preAuthorization returns its decision
Decided == aut.pc = "pre_perm"

\* C9: the authorization loop appends a flight plan to the store only in an
\* attempt whose pre-authorization decision was APPROVED, and one plan at
\* most, the plan of the attempt; an attempt whose decision is not APPROVED
\* leaves the store unchanged, and its plan is not submitted again: the
\* invocation goes on to the next attempt or returns.
C9_Theorem ==
    [][LET old == database.flightPlans
           new == database'.flightPlans
           approved == aut'.response.preauthorizationStatus
                          = PreAuthorizationStatus.APPROVED
       IN  /\ new # old =>
                 /\ Decided
                 /\ approved
                 /\ Len(new) = Len(old) + 1
                 /\ SubSeq(new, 1, Len(old)) = old
                 /\ new[Len(new)].droneId = aut.flightPlan.droneId
                 /\ new[Len(new)].path = PathOf(aut.flightPlan.flightPlan.route)
           /\ (Decided /\ ~approved) =>
                 /\ new = old
                 /\ aut'.flightPlan = NoAuthPlan
                 /\ \/ aut'.pc = "idle"
                    \/ aut'.pc = "gen" /\ aut'.i = aut.i + 1
      ]_vars

\* the first attempt of an invocation was APPROVED and its plan is the one
\* plan of the store; the second attempt has begun
C9_Witness ==
    /\ aut.pc = "gen"
    /\ aut.i = 1
    /\ aut.response.preauthorizationStatus = PreAuthorizationStatus.APPROVED
    /\ Len(database.flightPlans) = 1
    /\ database.flightPlans[1].droneId = database.drones[Len(database.drones)]._id

-----------------------------------------------------------------------------
(* Claims about authorizeFlightPlan (C11 checked under SpecTel, C12 under   *)
(* SpecStore)                                                              *)

\* the step is a call of authorizeFlightPlan that returned
Authorized ==
    /\ call' # call
    /\ call'.op = "authorizeFlightPlan"
    /\ ~call'.threw

\* the stored plan has the droneId and the zones of the given flight plan and
\* its waypoints are the route's points, in the same order and number
StoredFrom(plan, flightPlan) ==
    /\ plan.droneId = flightPlan.droneId
    /\ plan.zones = flightPlan.zones
    /\ Len(plan.path) = Len(flightPlan.flightPlan.route)
    /\ \A k \in 1..Len(plan.path) :
          /\ plan.path[k].lat = flightPlan.flightPlan.route[k].lat
          /\ plan.path[k].lon = flightPlan.flightPlan.route[k].lon
          /\ plan.path[k].altitude = flightPlan.flightPlan.route[k].alt

C12_Theorem ==
    [][(call'.op = "authorizeFlightPlan" /\ call'.threw) =>
          /\ call'.message = "Failed to authorize flight plan on blockchain"
          /\ call' # call => database'.flightPlans = database.flightPlans
      ]_vars

\* the push of the last call threw on a flight plan of MaxPath waypoints
\* while the store held a plan
C12_Witness ==
    /\ call.op = "authorizeFlightPlan"
    /\ call.threw
    /\ call.flightPlan.flightPlan.defined
    /\ Len(call.flightPlan.flightPlan.route) = MaxPath
    /\ Len(database.flightPlans) = 1

-----------------------------------------------------------------------------
(* Claims about failed emissions of the telemetry loop (checked under      *)
(* SpecTel)                                                                *)

\* C20 (as claimed): the telemetry loop does not halt on a failed emission:
\* an invocation that awaits the outcome of a violation report goes on with
\* the remaining steps of the plan whatever the outcome; it does not end
\* there.
C20_Claim ==
    [][\A t \in 1..MaxTelTicks :
          tel[t].pc = "violation" => tel'[t].pc # "idle"]_vars

-----------------------------------------------------------------------------
(* Claims about zone geometry (checked under SpecGeo) *)

\* the last call was a route characterization that returned
Characterized ==
    /\ call.op = "getRouteCharacteristics"
    /\ ~call.out.threw

ZoneSet(zones) == {zones[k] : k \in 1..Len(zones)}

\* the point lies inside or on the polygon of the zone as it was fetched
InPolygon(point, zone) ==
    InRing(point.lon, point.lat, RingOf(zone.boundaries))

\* the point's altitude lies within the zone's band, ends included
InBand(point, zone) ==
    zone.minAltitude <= point.alt /\ point.alt <= zone.maxAltitude

\* C13 (as claimed): a route characterization includes a zone classification
\* only on account of a route point that lies inside the polygon of an active
\* zone of that classification and whose altitude lies within that zone's
\* [minAltitude, maxAltitude] band, ends included.
C13_Claim ==
    Characterized =>
        LET route == call.request.flightPlan.route
            zonesLimits == call.zoneOut.zones
        IN  \A type \in ZoneSet(call.out.value.zones) :
                \E k \in 1..Len(route), z \in 1..Len(zonesLimits) :
                    /\ zonesLimits[z].isActive
                    /\ ZoneTypeLookup(zonesLimits[z].zoneType) = type
                    /\ InPolygon(route[k], zonesLimits[z])
                    /\ InBand(route[k], zonesLimits[z])

\* C14: the altitude ceiling returned by route characterization is the
\* maximum altitude over the route's points floored to a whole number of
\* metres: a whole number, not above the highest point and less than one
\* metre below it; it is 0 when the route is empty or missing.
C14_Theorem ==
    Characterized =>
        LET limit == call.out.value.altitudeLimit
            plan == call.request.flightPlan
        IN  IF ~plan.defined \/ Len(plan.route) = 0
            THEN limit = 0
            ELSE /\ limit % AltScale = 0
                 /\ \E k \in 1..Len(plan.route) : limit <= plan.route[k].alt
                 /\ \A k \in 1..Len(plan.route) :
                       plan.route[k].alt < limit + AltScale

\* a route of MaxRoute points whose highest altitude, 180 metres and a
\* fraction, is that of its last point was given the ceiling 180
C14_Witness ==
    /\ Characterized
    /\ Len(call.request.flightPlan.route) = MaxRoute
    /\ call.request.flightPlan.route[1].alt = 100 * AltScale
    /\ call.request.flightPlan.route[MaxRoute].alt = 180 * AltScale + 1
    /\ call.out.value.altitudeLimit = 180 * AltScale

\* C15 (as claimed): a containment check, in route characterization or in
\* the first-point selection of the route generator, leaves the boundary of
\* every zone unchanged, however many times the zone is checked.
C15_Claim ==
    (/\ call.op \in {"getRouteCharacteristics", "generateMockFlightPlan"}
     /\ call.zoneOut.kind = "data")
        => \A z \in 1..Len(call.zoneOut.zones) :
              call.zonesAfter[z].boundaries = call.zoneOut.zones[z].boundaries

\* the routes with the points of the given route in any order
PermutedRoutes(route) ==
    {[k \in 1..Len(route) |-> route[f[k]]] :
        f \in Permutations(1..Len(route))}

\* C16: for a fixed zone list, route characterization gives the same set of
\* zone classifications for every permutation of the route's points, and
\* fails for all of them or for none.
C16_Theorem ==
    (call.op = "getRouteCharacteristics" /\ call.request.flightPlan.defined)
        => \A route \in PermutedRoutes(call.request.flightPlan.route) :
              LET other == getRouteCharacteristics(
                               [call.request EXCEPT
                                   !.flightPlan = FlightPlanOf(route)],
                               call.zoneOut)
              IN  /\ other.threw = call.out.threw
                  /\ ~other.threw =>
                        ZoneSet(other.value.zones)
                           = ZoneSet(call.out.value.zones)

\* a route whose first point lies in the restricted zone and whose second
\* point lies in the urban zone was characterized as restricted, then urban
C16_Witness ==
    /\ Characterized
    /\ Len(call.request.flightPlan.route) = 2
    /\ call.request.flightPlan.route[1] = Position(4, 4, 30 * AltScale)
    /\ call.request.flightPlan.route[2] = Position(1, 1, 100 * AltScale)
    /\ call.out.value.zones = <<ZoneType.RESTRICTED, ZoneType.URBAN>>

\* C17: a zone whose active flag is false never contributes its
\* classification to a route characterization: every classification returned
\* is that of an active zone whose polygon holds a point of the route; and
\* such a zone is never the target zone of the first point of a generated
\* route, whatever the permitted zones and the valid flag.
C17_Theorem ==
    /\ Characterized =>
          LET route == call.request.flightPlan.route
              zonesLimits == call.zoneOut.zones
          IN  \A type \in ZoneSet(call.out.value.zones) :
                  \E k \in 1..Len(route), z \in 1..Len(zonesLimits) :
                      /\ zonesLimits[z].isActive
                      /\ ZoneTypeLookup(zonesLimits[z].zoneType) = type
                      /\ InPolygon(route[k], zonesLimits[z])
    /\ (call.op = "generateMockFlightPlan" /\ call.target # 0) =>
          call.zoneOut.zones[call.target].isActive

\* an invalid route was generated for a drone permitted in restricted zones
\* from a zone list whose first zone is inactive: the target is a later zone
C17_Witness ==
    /\ call.op = "generateMockFlightPlan"
    /\ ~call.valid
    /\ call.permittedZones = <<ZoneType.RESTRICTED>>
    /\ Len(call.zoneOut.zones) > 1
    /\ ~call.zoneOut.zones[1].isActive
    /\ call.target > 1

\* C18 (as claimed): when the zone list could not be obtained, route
\* characterization fails and returns no characterization, empty or
\* otherwise; on a non-success response of the zones endpoint the failure is
\* 'Failed to retrieve zone limits'.
C18_Claim ==
    (call.op = "getRouteCharacteristics" /\ call.zoneOut.kind # "data") =>
        /\ call.out.threw
        /\ call.zoneOut.kind = "notok" =>
              call.out.message = "Failed to retrieve zone limits"

-----------------------------------------------------------------------------
(* Claims about failed attempts of the authorization loop (checked under   *)
(* SpecAut)                                                                *)

\* the invocation is inside one of its authorization attempts
InAttempt == aut.pc \in {"gen", "char", "pre_zones", "pre_perm"}

\* C21 (as claimed): an invocation that has begun its authorization attempts
\* performs all of them: it ends only with the decision of the last attempt,
\* whatever happened in the attempts before, a FAILED decision or a failed
\* zone retrieval while generating or characterizing the route.
C21_Claim ==
    [][(InAttempt /\ aut'.pc = "idle")
          => (aut.pc = "pre_perm" /\ aut.i = Attempts - 1)]_vars

-----------------------------------------------------------------------------
(* preAuthorization suspended at its fetches (lines 59 and 82-93)          *)
(*                                                                         *)
(* Neither fetch is given a signal or a timer, so the call goes on only    *)
(* when the collaborator answers. Whether it will is the collaborator's    *)
(* choice, made when the fetch is issued.                                  *)

\* a call suspended at the fetch named by pc, which the collaborator will
\* answer or not
Suspended(request, pc, answers, rc) ==
    [op |-> "preAuthorization", pc |-> pc, request |-> request,
     answers |-> answers, rc |-> rc, out |-> PreIdle.out]

\* a call that has returned out
Returned(request, out) ==
    [op |-> "preAuthorization", pc |-> "returned", request |-> request,
     answers |-> TRUE, rc |-> Throw(""), out |-> out]

\* preAuthorization(request) up to its first await: an invalid request is
\* answered at once, else GET /api/zones is issued
WaitCall ==
    /\ call = NoCall
    /\ \E request \in Requests, answers \in BOOLEAN :
          call' = IF ~ValidRequest(request)
                  THEN Returned(request,
                                PreCatch(request, MsgInvalidRequest, 0, <<>>))
                  ELSE Suspended(request, "zones", answers, Throw(""))
    /\ UNCHANGED <<pre, database, tel, aut, ext>>

\* the zones endpoint answers: the characterization fails and the catch
\* block returns, or POST /api/route-permissions/check is issued
WaitZonesAnswer ==
    /\ call.op = "preAuthorization"
    /\ call.pc = "zones"
    /\ call.answers
    /\ \E zoneOut \in ZoneOutcomes, answers \in BOOLEAN :
          LET rc == getRouteCharacteristics(call.request, zoneOut)
          IN  call' = IF rc.threw
                      THEN Returned(call.request,
                                    PreCatch(call.request, rc.message, 1,
                                             <<>>))
                      ELSE Suspended(call.request, "perm", answers, rc)
    /\ UNCHANGED <<pre, database, tel, aut, ext>>

\* the route-permission authority answers: preAuthorization returns
WaitPermAnswer ==
    /\ call.op = "preAuthorization"
    /\ call.pc = "perm"
    /\ call.answers
    /\ \E permOut \in PermOutcomes :
          call' = Returned(call.request,
                           PreSubmit(call.request, call.rc, permOut))
    /\ UNCHANGED <<pre, database, tel, aut, ext>>

\* the caller has its answer; the next request may come
WaitReturn ==
    /\ call.op = "preAuthorization"
    /\ call.pc = "returned"
    /\ call' = NoCall
    /\ UNCHANGED <<pre, database, tel, aut, ext>>

NextWait == WaitCall \/ WaitZonesAnswer \/ WaitPermAnswer \/ WaitReturn

\* a collaborator that will answer does answer, and a settled promise is
\* resumed by the event loop
SpecWait ==
    /\ Init
    /\ [][NextWait]_vars
    /\ WF_vars(WaitZonesAnswer)
    /\ WF_vars(WaitPermAnswer)
    /\ WF_vars(WaitReturn)

-----------------------------------------------------------------------------
(* Claims about blocking on external collaborators (checked under SpecWait) *)

\* C22 (as claimed): no call of preAuthorization blocks indefinitely on the
\* zones endpoint or on the route-permission authority: a call suspended at
\* a fetch eventually returns, also when the collaborator never answers.
C22_Claim ==
    (call.op = "preAuthorization" /\ call.pc \in {"zones", "perm"})
        ~> (call.op = "preAuthorization" /\ call.pc = "returned")

-----------------------------------------------------------------------------
(* generateMockFlightPlan called on its own, with the draws of Math.random *)

\* Math.random() is r / RandomDen for a draw r of 0..RandomDen - 1
RandomDraws == 0..(RandomDen - 1)

\* the least number of points is not added
NumPoints_m(r) ==
    (r * (MaxPoints - MinPoints + 1)) \div RandomDen

\* Math.floor(Math.random() * (50 - 30 + 1)) + 30 (line 794)
NumPoints(r) ==
    ((r * (MaxPoints - MinPoints + 1)) \div RandomDen) + MinPoints

\* (Math.random() - 0.5) * 10 (line 875), in altitude units, rounded down
DriftOf(r) ==
    ((r * 10 * AltScale) \div RandomDen) - 5 * AltScale

\* the draws a call is checked with: every number of points, every first
\* point, a walk that stays in its grid cell (turf.destination moves at most
\* 0.01 km), and the least, the middle and the greatest altitude change
GeneratorDraws(permittedZones, valid, zonesLimits) ==
    [numPoints : {NumPoints(r) : r \in RandomDraws},
     first : FirstPoints(permittedZones, valid, zonesLimits),
     move : {<<0, 0>>},
     drift : {DriftOf(r) : r \in {0, RandomDen \div 2, RandomDen - 1}}]

\* a call of generateMockFlightPlan({permittedZones, valid}): the zone
\* retrieval throws, or the route is generated from the zones retrieved
GenerateRouteCall ==
    /\ call = NoCall
    /\ \E permittedZones \in PermittedZoneLists, valid \in BOOLEAN,
          zoneOut \in ZoneOutcomes :
          LET limits == getZonesLimits(zoneOut)
              failed == limits.threw \/ ~limits.value.defined
              zones == IF failed THEN <<>> ELSE limits.value.zones
          IN  \E rnd \in GeneratorDraws(permittedZones, valid, zones) :
                 call' = [op |-> "generateRoute",
                          permittedZones |-> permittedZones, valid |-> valid,
                          zoneOut |-> zoneOut, threw |-> failed,
                          target |-> IF failed THEN 0
                                     ELSE TargetZone(permittedZones, valid,
                                                     zones),
                          route |-> IF failed THEN <<>>
                                    ELSE generateMockFlightPlan(valid, rnd)]
    /\ UNCHANGED <<pre, database, tel, aut, ext>>

\* the caller has the route, or the error
GenerateRouteReturn ==
    /\ call.op = "generateRoute"
    /\ call' = NoCall
    /\ UNCHANGED <<pre, database, tel, aut, ext>>

NextGen == GenerateRouteCall \/ GenerateRouteReturn

SpecGen == Init /\ [][NextGen]_vars

-----------------------------------------------------------------------------
(* Claims about the route generator (checked under SpecGen) *)

\* the last call of the generator returned a route
Generated ==
    /\ call.op = "generateRoute"
    /\ ~call.threw

\* C23: for every permittedZones, every valid flag and every zone list
\* retrieved, the empty list and a list without a matching active zone
\* included, the generator returns a route of at least 30 and at most 50
\* points.
C23_Theorem ==
    Generated =>
        /\ MinPoints <= Len(call.route)
        /\ Len(call.route) <= MaxPoints

\* from an empty zone list a route of 50 points was generated, its first
\* point being the fallback point
C23_Witness ==
    /\ Generated
    /\ call.zoneOut.zones = <<>>
    /\ call.target = 0
    /\ call.route[1] \in FallbackPoints
    /\ Len(call.route) = MaxPoints

\* the classification of a zone: its zoneType, one of the values of the enum,
\* or the value of the enum key the endpoint gave in its place
Classification(zone) ==
    IF zone.zoneType \in DOMAIN ZoneType THEN ZoneType[zone.zoneType]
    ELSE zone.zoneType

\* the zones of the list retrieved that are active and classified type
ActiveZonesOf(zonesLimits, types) ==
    {k \in 1..Len(zonesLimits) :
        /\ zonesLimits[k].isActive
        /\ Includes(types, Classification(zonesLimits[k]))}

\* C24 (as claimed): for valid = false, whenever the zone list holds an
\* active zone classified restricted, the first point of the generated route
\* lies inside an active zone classified restricted, whether or not
\* restricted is among permittedZones.
C24_Claim ==
    (Generated /\ ~call.valid) =>
        LET restricted == ActiveZonesOf(call.zoneOut.zones,
                                        <<ZoneType.RESTRICTED>>)
        IN  restricted # {} =>
               \E k \in restricted :
                   InPolygon(call.route[1], call.zoneOut.zones[k])

\* C25 (as claimed): for valid = true, whenever the zone list holds an active
\* zone whose classification is in permittedZones, the first point of the
\* generated route lies inside the polygon of such a zone, at an altitude
\* within that zone's altitude band.
C25_Claim ==
    (Generated /\ call.valid) =>
        LET permitted == ActiveZonesOf(call.zoneOut.zones,
                                       call.permittedZones)
        IN  permitted # {} =>
               \E k \in permitted :
                   /\ InPolygon(call.route[1], call.zoneOut.zones[k])
                   /\ InBand(call.route[1], call.zoneOut.zones[k])

\* the points of the route that lie AltitudeJump metres above their
\* predecessor
Jumps(route) ==
    {k \in 2..Len(route) :
        route[k].alt - route[k - 1].alt = AltitudeJump * AltScale}

\* C26 (as claimed): a route generated with valid = false holds exactly one
\* point that lies 200 metres above its predecessor, in the middle third of
\* the route, and every other change of altitude between consecutive points
\* is at most 5 metres; a route generated with valid = true holds no such
\* point.
C26_Claim ==
    Generated =>
        LET route == call.route
            n == Len(route)
        IN  IF call.valid THEN Jumps(route) = {}
            ELSE /\ Cardinality(Jumps(route)) = 1
                 /\ \A k \in Jumps(route) :
                       n <= 3 * (k - 1) /\ 3 * (k - 1) < 2 * n
                 /\ \A k \in (2..n) \ Jumps(route) :
                       /\ route[k].alt - route[k - 1].alt <= 5 * AltScale
                       /\ route[k - 1].alt - route[k].alt <= 5 * AltScale

-----------------------------------------------------------------------------
(* The service API on invalid requests and failing collaborators:          *)
(* addMockDrone and locationUpdate                                         *)

\* the drone inputs that fail validation: a valid input with one member
\* missing, empty or of the wrong type
InvalidDroneInputs ==
    UNION {{[drone EXCEPT !.model = v] : v \in {UNDEFINED, ""}}
           \cup {[drone EXCEPT !.droneType = UNDEFINED]}
           \cup {[drone EXCEPT !.permittedZones = MissingArray]}
           \cup {[drone EXCEPT !.operatorId = v] : v \in {UNDEFINED, ""}}
           \cup {[drone EXCEPT !.certHashes = v] :
                    v \in {MissingArray, <<>>, <<"cert-hash-1", "#42">>}}
           : drone \in DroneInputs}

NoPosition == [defined |-> FALSE, lat |-> 0, lon |-> 0, alt |-> 0]

\* the requests given to locationUpdate, with members missing or present
LocationRequests ==
    [droneId : {UNDEFINED, "", "1"},
     position : {NoPosition,
                 [defined |-> TRUE, lat |-> 1, lon |-> 1,
                  alt |-> 100 * AltScale]},
     timestamp : {UNDEFINED, "2025-01-01T00:00:00.000Z"}]

\* the outcomes of fetch(`${ENDPOINT_URL}/location_update`)
PostOutcomes ==
    [kind : {"reject"}, message : ErrorMessages]
    \cup [kind : {"ok", "notok"}, message : {""}]

MsgInvalidLocation ==
    "Invalid request: droneId, position, and timestamp are required."

\* `Failed to send location update to backend: ${error.message}`
MsgLocationFailed(message) ==
    IF message = "Network error"
    THEN "Failed to send location update to backend: Network error"
    ELSE "Failed to send location update to backend: "

\* the guard of line 291, negated
ValidLocation(request) ==
    /\ ~Falsy(request.droneId)
    /\ request.position.defined
    /\ request.timestamp # UNDEFINED

\* locationUpdate(request) on the outcome of its POST (lines 287-340): the
\* location is stored before the POST is made; response.ok is not read
locationUpdate(db, request, postOut) ==
    IF ~ValidLocation(request)
    THEN [threw |-> TRUE, message |-> MsgInvalidLocation, database |-> db,
          fetches |-> 0]
    ELSE LET stored ==
                 [db EXCEPT !.locations =
                     Append(@, [droneId |-> request.droneId,
                                timestamp |-> request.timestamp,
                                position |-> Position(request.position.lat,
                                                      request.position.lon,
                                                      request.position.alt)])]
         IN  IF postOut.kind = "reject"
             THEN [threw |-> TRUE,
                   message |-> MsgLocationFailed(postOut.message),
                   database |-> stored, fetches |-> 1]
             ELSE [threw |-> FALSE, message |-> "", database |-> stored,
                   fetches |-> 1]

\* POST /addMockDrone with any input; the authority assigns every token id
\* once
AddMockDroneRequest ==
    /\ \E drone \in DroneInputs \cup InvalidDroneInputs,
          mintOut \in MintOutcomes :
          LET r == addMockDrone(database, drone, mintOut)
          IN  /\ \A d \in 1..Len(database.drones) :
                    database.drones[d]._id # mintOut.tokenId
              /\ database' = r.database
              /\ call' = [op |-> "addMockDrone", drone |-> drone,
                          mintOut |-> mintOut, before |-> database,
                          threw |-> r.threw, message |-> r.message,
                          fetches |-> r.fetches]
    /\ UNCHANGED <<pre, tel, aut, ext>>

\* POST /location_update with any request
LocationUpdateRequest ==
    /\ \E request \in LocationRequests, postOut \in PostOutcomes :
          LET r == locationUpdate(database, request, postOut)
          IN  /\ Len(r.database.locations) <= MaxLocations
              /\ database' = r.database
              /\ call' = [op |-> "locationUpdate", request |-> request,
                          postOut |-> postOut, before |-> database,
                          threw |-> r.threw, message |-> r.message,
                          fetches |-> r.fetches]
    /\ UNCHANGED <<pre, tel, aut, ext>>

NextApi == AddMockDroneRequest \/ LocationUpdateRequest

SpecApi == Init /\ [][NextApi]_vars

-----------------------------------------------------------------------------
(* Claims about validation and the mint call (checked under SpecApi) *)

\* the input lacks a required member: it is undefined or the empty string
MissingDroneMember(drone) ==
    \/ drone.model \in {UNDEFINED, ""}
    \/ drone.droneType = UNDEFINED
    \/ drone.permittedZones = MissingArray
    \/ drone.operatorId \in {UNDEFINED, ""}

\* certHashes is not a non-empty array of strings
BadCertHashes(drone) ==
    \/ drone.certHashes = MissingArray
    \/ drone.certHashes = <<>>
    \/ \E k \in 1..Len(drone.certHashes) : drone.certHashes[k] \in NonStrings

\* the request lacks droneId, position or timestamp
MissingLocationMember(request) ==
    \/ request.droneId \in {UNDEFINED, ""}
    \/ ~request.position.defined
    \/ request.timestamp = UNDEFINED

-----------------------------------------------------------------------------
(* Claims about completion (C29 checked under SpecTel, C30 under SpecTick) *)

\* every waypoint of the plan is marked reached
AllMarked(flightPlan) ==
    \A k \in 1..Len(flightPlan.path) : flightPlan.path[k].finished

\* C29: in every reachable state a flight plan's finished flag is true only
\* if every one of its waypoints is marked reached, and a completion record
\* was emitted only for plans all of whose waypoints are marked reached.
C29_Theorem ==
    \A p \in 1..Len(database.flightPlans) :
        (database.flightPlans[p].finished \/ ext.routeLogs[p] > 0)
            => AllMarked(database.flightPlans[p])

\* a plan of MaxPath waypoints is finished, all its waypoints are marked and
\* its completion record was emitted
C29_Witness ==
    /\ Len(database.flightPlans) = 1
    /\ Len(database.flightPlans[1].path) = MaxPath
    /\ database.flightPlans[1].finished
    /\ ext.routeLogs[1] > 0
    /\ AllMarked(database.flightPlans[1])

\* C30 (as claimed): the completion of one plan stops the advancement of
\* that plan only: a telemetry invocation that has completed a plan goes on
\* to the plans that follow it in the list it filtered, so that it ends
\* after a completion only when the completed plan was the last of the list.
C30_Claim ==
    [][(tel[1].pc = "completing" /\ tel'[1].pc = "idle")
          => tel[1].ci = Len(tel[1].plans)]_vars

-----------------------------------------------------------------------------
(* Claims about the emissions of a telemetry step (checked under SpecTel)  *)

\* the step marks a waypoint of a stored plan reached
MarksWaypoint ==
    \E p \in 1..Len(database.flightPlans) :
        \E k \in 1..Len(database.flightPlans[p].path) :
            /\ ~database.flightPlans[p].path[k].finished
            /\ database'.flightPlans[p].path[k].finished

\* C31 (as claimed): every telemetry step that marks a waypoint reached also
\* sends one location update for the plan's drone: locationUpdate, the one
\* operation that posts to /location_update, is called, which stores the
\* location before it posts it.
C31_Claim ==
    [][MarksWaypoint =>
          /\ Len(database'.locations) = Len(database.locations) + 1
          /\ \E p \in 1..Len(database.flightPlans) :
                database'.locations[Len(database'.locations)].droneId
                   = database.flightPlans[p].droneId]_vars

\* the invocation is at the head of step i of a plan, its timeout elapsed
AtStep(t) == tel[t].pc = "delay"

\* the plan invocation t is advancing
PlanOf(t) == database.flightPlans[tel[t].plans[tel[t].ci]]

\* the plan's drone is in the store and the plan has an unreached waypoint
StepFindsWaypoint(t) ==
    /\ \E d \in 1..Len(database.drones) :
          database.drones[d]._id = PlanOf(t).droneId
    /\ ~AllMarked(PlanOf(t))

\* the step issues a violation report: the invocation awaits sendViolation
ReportsViolation(t) == AtStep(t) /\ tel'[t].pc = "violation"

-----------------------------------------------------------------------------
(* Overlapping invocations of simulateFlightPlansAuthorization: the cron    *)
(* fires every minute and does not wait for the invocation before, and no   *)
(* call of the method has a timeout. In SpecBoot aut holds one record per    *)
(* invocation.                                                              *)

\* the invocations of the authorization loop under way at a time
MaxBootTicks == 2

\* an invocation: its place, the length check it is at, the store it started
\* with, and the mint and register calls it has issued
IdleBoot ==
    [pc |-> "idle", k |-> 0, startDrones |-> 0, startOperators |-> 0,
     mints |-> 0, registers |-> 0]

\* the token ids the authority assigns to the drones of overlapping
\* invocations, in order
BootTokenIds == [n \in 1..(2 + MaxBootTicks) |-> ToString(n)]

\* the mint outcomes offered to an invocation: a failure, or the next token id
BootMintOutcomes(db) ==
    [kind : {"reject", "notok"}, tokenId : {UNDEFINED}]
    \cup {[kind |-> "data", tokenId |-> BootTokenIds[Len(db.drones) + 1]]}

RECURSIVE BootDroneChecks(_, _, _)
\* the length checks of lines 917, 931, 946 from check k on: the first one
\* that holds issues a mint; past the last one the attempts start
BootDroneChecks(db, self, k) ==
    IF k >= 3 THEN [self EXCEPT !.pc = "attempts", !.k = 0]
    ELSE IF Len(db.drones) = k
         THEN [self EXCEPT !.pc = "mint", !.k = k, !.mints = @ + 1]
         ELSE BootDroneChecks(db, self, k + 1)

\* the register call of line 624 is issued
BootRegister(self) ==
    [self EXCEPT !.pc = "op_reg", !.registers = @ + 1]

InitBoot ==
    /\ pre = PreIdle
    /\ database = [drones |-> <<>>, flightPlans |-> <<>>, locations |-> <<>>,
                   operators |-> <<>>]
    /\ tel = [t \in 1..MaxTelTicks |-> IdleTel]
    /\ aut = [t \in 1..MaxBootTicks |-> IdleBoot]
    /\ ext = [routeLogs |-> [p \in 1..(MaxPlans + 1) |-> 0]]
    /\ call = NoCall

\* the cron fires: line 900
BootStart(t) ==
    /\ aut[t].pc = "idle"
    /\ LET self == [IdleBoot EXCEPT
                       !.startDrones = Len(database.drones),
                       !.startOperators = Len(database.operators)]
       IN  aut' = [aut EXCEPT ![t] =
                      IF Len(database.operators) = 0
                      THEN [self EXCEPT !.pc = "op_info"]
                      ELSE BootDroneChecks(database, self, 0)]
    /\ UNCHANGED <<call, pre, database, tel, ext>>

\* addMockOperator, the answer of /api/operators/info (lines 564-579)
BootOperatorInfo(t) ==
    /\ aut[t].pc = "op_info"
    /\ \E info \in {"failed", "registered", "unregistered"} :
          IF info = "registered"
          THEN /\ database' =
                    IF Len(database.operators) = 0
                    THEN [database EXCEPT !.operators =
                             Append(@, [address |-> "0xoperator"])]
                    ELSE database
               /\ aut' = [aut EXCEPT ![t].pc = "op_rep"]
          ELSE /\ aut' = [aut EXCEPT ![t] = BootRegister(@)]
               /\ UNCHANGED database
    /\ UNCHANGED <<call, pre, tel, ext>>

\* addMockOperator, the answer of /api/operators/reputation (lines 588-607)
BootOperatorReputation(t) ==
    /\ aut[t].pc = "op_rep"
    /\ \E ok \in BOOLEAN :
          aut' = [aut EXCEPT ![t] =
                     IF ok THEN BootDroneChecks(database, @, 0)
                     ELSE BootRegister(@)]
    /\ UNCHANGED <<call, pre, database, tel, ext>>

\* addMockOperator, the answer of /api/operators/register (lines 624-651)
BootOperatorRegister(t) ==
    /\ aut[t].pc = "op_reg"
    /\ \E ok \in BOOLEAN :
          IF ok
          THEN LET db == [database EXCEPT !.operators =
                             Append(@, [address |-> "0xoperator"])]
               IN  /\ database' = db
                   /\ aut' = [aut EXCEPT ![t] = BootDroneChecks(db, @, 0)]
          ELSE /\ aut' = [aut EXCEPT ![t].pc = "idle"]
               /\ UNCHANGED database
    /\ UNCHANGED <<call, pre, tel, ext>>

\* addMockDrone has returned or thrown for length check k
BootMint(t) ==
    /\ aut[t].pc = "mint"
    /\ \E mintOut \in BootMintOutcomes(database) :
          LET r == addMockDrone(database, SchedulerDrone, mintOut)
          IN  IF r.threw
              THEN /\ aut' = [aut EXCEPT ![t].pc = "idle"]
                   /\ UNCHANGED database
              ELSE /\ database' = r.database
                   /\ aut' = [aut EXCEPT ![t] =
                                 BootDroneChecks(r.database, @, @.k + 1)]
    /\ UNCHANGED <<call, pre, tel, ext>>

\* the attempts of lines 962-1028, which add no drone and no operator, are
\* over and the invocation returns
BootAttempts(t) ==
    /\ aut[t].pc = "attempts"
    /\ aut' = [aut EXCEPT ![t].pc = "idle"]
    /\ UNCHANGED <<call, pre, database, tel, ext>>

Boot(t) ==
    \/ BootStart(t)
    \/ BootOperatorInfo(t)
    \/ BootOperatorReputation(t)
    \/ BootOperatorRegister(t)
    \/ BootMint(t)
    \/ BootAttempts(t)

NextBoot == \E t \in 1..MaxBootTicks : Boot(t)

SpecBoot == InitBoot /\ [][NextBoot]_vars

\* C33 (as claimed): with drones added only by the authorization loop, the
\* store never holds more than three drones, also when two invocations of the
\* loop overlap; and an invocation that started with three drones and an
\* operator has issued no mint and no register call.
C33_Claim ==
    /\ Len(database.drones) <= 3
    /\ \A t \in 1..MaxBootTicks :
          (aut[t].startDrones = 3 /\ aut[t].startOperators >= 1) =>
              (aut[t].mints = 0 /\ aut[t].registers = 0)

-----------------------------------------------------------------------------
(* Claims about the stores of the authorization loop (checked under SpecAut) *)

\* C34 (as claimed): whatever the operator-info, operator-reputation and
\* operator-register calls answer, the operator store never holds more than
\* one entry after any sequence of invocations of the authorization loop.
C34_Claim ==
    Len(database.operators) <= 1

-----------------------------------------------------------------------------
(* The authorization loop while the authority redraws its zones: between    *)
(* two retrievals of an attempt the zone list may have changed.             *)

\* the zone endpoint answers with the zones the drones are permitted in, or
\* with a list from which they have been withdrawn
ChangingZoneOutcomes ==
    [kind : {"data"}, message : {""},
     zones : {<<ZUrban, ZRural>>, <<ZRestricted>>}]

ZonesGenerate == AutGenerateOn(ChangingZoneOutcomes)

ZonesCharacterize == AutCharacterizeOn(ChangingZoneOutcomes)

ZonesPreZones == AutPreZonesOn(ChangingZoneOutcomes)

ZonesDecision == AutDecisionOn(SchedulerPermOutcomes)

NextZones ==
    \/ AutStart
    \/ AutOperatorInfo
    \/ AutOperatorReputation
    \/ AutOperatorRegister
    \/ AutMint
    \/ AutAttempts
    \/ ZonesGenerate
    \/ ZonesCharacterize
    \/ ZonesPreZones
    \/ ZonesDecision

SpecZones == Init /\ [][NextZones]_vars

\* the invocation appends a flight plan to the store (line 1017)
AppendsPlan ==
    /\ aut.pc = "pre_perm"
    /\ Len(database'.flightPlans) = Len(database.flightPlans) + 1

\* C35 (as claimed): for every flight plan the authorization loop appends,
\* the zone set stored with the plan equals the zone set submitted to the
\* authority in the pre-authorization that approved it, even if the zone list
\* differs between the retrievals of that attempt.
C35_Claim ==
    [][AppendsPlan =>
          /\ ~aut.rc.threw
          /\ ZoneSet(database'.flightPlans[Len(database'.flightPlans)].zones)
                = ZoneSet(DefaultZones(aut.rc.value.zones))]_vars

\* C36 (as claimed): in every attempt of the authorization loop, the droneId
\* submitted to pre-authorization, and stored with the plan, is the id of the
\* drone drawn for that attempt.
C36_Claim ==
    aut.pc \in {"pre_zones", "pre_perm"} =>
        aut.flightPlan.droneId = database.drones[aut.droneIndex]._id

-----------------------------------------------------------------------------
(* Claims about the zone set of a characterization (checked under SpecGeo)  *)

\* the zone's zoneType is a value of enum ZoneType, as interface Zone types it
ValueTyped(zone) == \E key \in DOMAIN ZoneType : zone.zoneType = ZoneType[key]

\* the active zones of the list retrieved that contain a point of the route
ZonesCrossed(route, zonesLimits) ==
    {k \in 1..Len(zonesLimits) :
        /\ zonesLimits[k].isActive
        /\ \E n \in 1..Len(route) : InPolygon(route[n], zonesLimits[k])}

\* C37 (as claimed): when the zones the route crosses carry a zoneType that is
\* a value of the enum, every element of the zone set the characterization
\* returns is one of the five classifications, is the classification of a
\* zone that contains a point of the route, and appears once.
C37_Claim ==
    (/\ call.op = "getRouteCharacteristics"
     /\ ~call.out.threw
     /\ \A k \in ZonesCrossed(call.request.flightPlan.route,
                              call.zoneOut.zones) :
           ValueTyped(call.zoneOut.zones[k])) =>
        LET zones == call.out.value.zones
            crossed == ZonesCrossed(call.request.flightPlan.route,
                                    call.zoneOut.zones)
        IN  \A n \in 1..Len(zones) :
               /\ \E key \in DOMAIN ZoneType : zones[n] = ZoneType[key]
               /\ \E k \in crossed : call.zoneOut.zones[k].zoneType = zones[n]
               /\ \A j \in 1..Len(zones) : zones[j] = zones[n] => j = n

-----------------------------------------------------------------------------
(* The authorization loop and the telemetry loop over one store: the two    *)
(* crons fire in the same minute, at seconds 30 and 0, and a telemetry      *)
(* invocation lasts for its 40 timeouts, so the two interleave. The         *)
(* endpoints answer the loop with one zone list and with a decision.        *)

\* the zone endpoint answers with the zones the drones are permitted in
FrameZoneOutcomes ==
    {z \in SchedulerZoneOutcomes :
        z.kind = "data" /\ z.zones = <<ZUrban, ZRural>>}

\* the authority decides, for or against
FramePermOutcomes ==
    {o \in SchedulerPermOutcomes : o.kind = "data" /\ o.data.droneId = "1"}

FrameGenerate == AutGenerateOn(FrameZoneOutcomes)

FrameCharacterize == AutCharacterizeOn(FrameZoneOutcomes)

FramePreZones == AutPreZonesOn(FrameZoneOutcomes)

FrameDecision == AutDecisionOn(FramePermOutcomes)

NextFrame ==
    \/ AutStart
    \/ AutOperatorInfo
    \/ AutOperatorReputation
    \/ AutOperatorRegister
    \/ AutMint
    \/ AutAttempts
    \/ FrameGenerate
    \/ FrameCharacterize
    \/ FramePreZones
    \/ FrameDecision
    \/ Telemetry(1)

SpecFrame == Init /\ [][NextFrame]_vars

\* a waypoint without its reached flag
Coordinates(point) ==
    [lat |-> point.lat, lon |-> point.lon, altitude |-> point.altitude]

\* C38: the reached flags of the waypoints and the finished flags of the
\* plans change only in steps of the telemetry loop: a step of the
\* authorization loop, the pre-authorization it calls included, leaves every
\* plan already stored as it is; and a step of the telemetry loop leaves the
\* drones and the operators as they are, adds and removes no flight plan, and
\* changes no waypoint's coordinates and no plan's drone or zones.
C38_Theorem ==
    [][/\ (aut' # aut) =>
             /\ Len(database'.flightPlans) >= Len(database.flightPlans)
             /\ \A p \in 1..Len(database.flightPlans) :
                   database'.flightPlans[p] = database.flightPlans[p]
       /\ (tel' # tel) =>
             /\ aut' = aut
             /\ database'.drones = database.drones
             /\ database'.operators = database.operators
             /\ Len(database'.flightPlans) = Len(database.flightPlans)
             /\ \A p \in 1..Len(database.flightPlans) :
                   LET old == database.flightPlans[p]
                       new == database'.flightPlans[p]
                   IN  /\ new.droneId = old.droneId
                       /\ new.zones = old.zones
                       /\ Len(new.path) = Len(old.path)
                       /\ \A k \in 1..Len(old.path) :
                             Coordinates(new.path[k]) = Coordinates(old.path[k])
       /\ \A p \in 1..Len(database.flightPlans) :
             (\/ database'.flightPlans[p].finished
                    # database.flightPlans[p].finished
              \/ \E k \in 1..Len(database.flightPlans[p].path) :
                    database'.flightPlans[p].path[k].finished
                       # database.flightPlans[p].path[k].finished)
                => (tel' # tel /\ aut' = aut /\ pre' = pre)
      ]_vars

\* the authorization loop is inside a pre-authorization while the telemetry
\* loop is half way through the plan an earlier attempt stored
C38_Witness ==
    /\ aut.pc = "pre_perm"
    /\ tel[1].pc = "delay"
    /\ Len(database.flightPlans) = 1
    /\ database.flightPlans[1].path[1].finished
    /\ ~database.flightPlans[1].finished

-----------------------------------------------------------------------------
(* Telemetry ticks that keep firing on the plans of the authorization loop, *)
(* every external call succeeding: sendViolation and completeFlightPlan     *)
(* return. The loop stores a plan at line 1017 for the last drone of the    *)
(* store (line 998), over a route of numPoints points.                      *)

\* the flight plans the authorization loop stores
LoopFlightPlans(db) ==
    [droneId : {db.drones[Len(db.drones)]._id},
     flightPlan : {FlightPlanOf(route) : route \in LongRoutes},
     zones : {<<ZoneType.URBAN>>}]

\* the authorization loop, its drones minted, stores an approved plan
LoopAppendCall ==
    /\ Len(database.drones) > 0
    /\ \E flightPlan \in LoopFlightPlans(database) :
          LET r == authorizeFlightPlan(database, flightPlan, FALSE)
          IN  /\ Len(r.database.flightPlans) <= MaxPlans + 1
              /\ database' = r.database
              /\ call' = AuthorizeCall(flightPlan, r)
    /\ UNCHANGED <<pre, tel, aut, ext>>

\* a telemetry invocation whose calls succeed
LiveTelemetry(t) ==
    \/ TelStart(t)
    \/ TelStep(t)
    \/ TelViolationSent(t)
    \/ TelCompleted(t)

NextLive ==
    \/ AddMockDroneCall
    \/ LoopAppendCall
    \/ \E t \in 1..MaxTelTicks : LiveTelemetry(t)

\* the cron keeps firing, a timeout elapses, and a call that succeeds returns
SpecLive ==
    /\ Init
    /\ [][NextLive]_vars
    /\ \A t \in 1..MaxTelTicks : WF_vars(LiveTelemetry(t))

\* C39: while the telemetry ticks keep firing and every external call
\* succeeds, every flight plan the authorization loop has stored is
\* eventually marked finished, also a plan stored behind unfinished plans and
\* a plan of more than 40 waypoints.
C39_Theorem ==
    \A p \in 1..(MaxPlans + 1) :
        (Len(database.flightPlans) >= p)
            ~> (Len(database.flightPlans) >= p
                /\ database.flightPlans[p].finished)

\* a plan stored behind a plan of more than 40 waypoints is finished while
\* that plan, 40 of its waypoints reached, is still under way
C39_Witness ==
    /\ Len(database.flightPlans) = 2
    /\ Len(database.flightPlans[1].path) = TelemetrySteps + 1
    /\ database.flightPlans[1].path[TelemetrySteps].finished
    /\ ~database.flightPlans[1].finished
    /\ database.flightPlans[2].finished

-----------------------------------------------------------------------------
(* The first point of generateMockFlightPlan, round by round: the do-while  *)
(* of lines 836-843 draws a point of the target zone's bounding box with two *)
(* Math.random() values and leaves when booleanPointInPolygon accepts it.    *)
(* The loop has no await: while it runs, nothing else of the service does.   *)

\* a zone whose boundary points are collinear: a polygon without area
ZLine ==
    Zone("URBAN", <<Coord(0, 0), Coord(1, 1), Coord(2, 2)>>, 0, 120, TRUE)

\* the zone lists the sampler is checked with
SampleZoneLists == ZoneLists \cup {<<ZLine, ZUrban>>}

\* Math.random() is r / SampleDen for a draw r of 0..SampleDen - 1
SampleDen == 6

SampleDraws == 0..(SampleDen - 1)

\* turf.bbox of the closed ring: <<west, south, east, north>>
BBox(zone) ==
    LET ring == RingOf(PushClosing(zone).boundaries)
        xs == {ring[k][1] : k \in 1..Len(ring)}
        ys == {ring[k][2] : k \in 1..Len(ring)}
        minOf(S) == CHOOSE v \in S : \A w \in S : v <= w
        maxOf(S) == CHOOSE v \in S : \A w \in S : v >= w
    IN  <<minOf(xs), minOf(ys), maxOf(xs), maxOf(ys)>>

\* turf.randomPoint(1, {bbox}): Math.random() * (east - west) + west and the
\* same for the latitude, in units of 1/SampleDen
SamplePoint(zone, rx, ry) ==
    LET bbox == BBox(zone)
    IN  <<SampleDen * bbox[1] + rx * (bbox[3] - bbox[1]),
          SampleDen * bbox[2] + ry * (bbox[4] - bbox[2])>>

\* the closed ring in the same units
SampleRing(zone) ==
    LET ring == RingOf(PushClosing(zone).boundaries)
    IN  [k \in 1..Len(ring) |->
            <<SampleDen * ring[k][1], SampleDen * ring[k][2]>>]

\* the point lies exactly on an edge of the ring
OnEdge(pt, ring) ==
    \E k \in 1..(Len(ring) - 1) :
        OnBoundary(pt[1], pt[2], ring[k][1], ring[k][2],
                   ring[k + 1][1], ring[k + 1][2])

\* booleanPointInPolygon(randomPointFeatures.features[0], zonePolygon)
Accepted(zone, rx, ry) ==
    InRing(SamplePoint(zone, rx, ry)[1], SamplePoint(zone, rx, ry)[2],
           SampleRing(zone))

\* the draws of a round that fall inside the polygon, off its edges
InsideDraws(zone) ==
    {d \in SampleDraws \X SampleDraws :
        /\ Accepted(zone, d[1], d[2])
        /\ ~OnEdge(SamplePoint(zone, d[1], d[2]), SampleRing(zone))}

\* the draws of a round that fall exactly on an edge
EdgeDraws(zone) ==
    {d \in SampleDraws \X SampleDraws :
        /\ Accepted(zone, d[1], d[2])
        /\ OnEdge(SamplePoint(zone, d[1], d[2]), SampleRing(zone))}

\* generateMockFlightPlan is called and reaches its first point: without a
\* target zone the fallback point is taken and no sampling takes place. The
\* polygon is built once, before the loop (lines 826-832).
SampleCall ==
    /\ call = NoCall
    /\ \E permittedZones \in PermittedZoneLists, valid \in BOOLEAN,
          zonesLimits \in SampleZoneLists :
          LET k == TargetZone(permittedZones, valid, zonesLimits)
          IN  call' = IF k = 0
                      THEN [op |-> "firstPoint", pc |-> "done",
                            sampled |-> FALSE, zone |-> ZUrban,
                            inside |-> {}, edge |-> {}, draw |-> <<0, 0>>]
                      ELSE [op |-> "firstPoint", pc |-> "sampling",
                            sampled |-> TRUE, zone |-> zonesLimits[k],
                            inside |-> InsideDraws(zonesLimits[k]),
                            edge |-> EdgeDraws(zonesLimits[k]),
                            draw |-> <<0, 0>>]
    /\ UNCHANGED <<pre, database, tel, aut, ext>>

\* a round draws a point inside the polygon, off its edges: the loop ends
SampleInside ==
    /\ call.op = "firstPoint" /\ call.pc = "sampling"
    /\ \E d \in call.inside :
          call' = [call EXCEPT !.pc = "done", !.draw = d]
    /\ UNCHANGED <<pre, database, tel, aut, ext>>

\* a round draws a point that lies exactly on an edge: the loop ends
SampleEdge ==
    /\ call.op = "firstPoint" /\ call.pc = "sampling"
    /\ \E d \in call.edge :
          call' = [call EXCEPT !.pc = "done", !.draw = d]
    /\ UNCHANGED <<pre, database, tel, aut, ext>>

\* a round draws a point outside the polygon: another round follows
SampleOutside ==
    /\ call.op = "firstPoint" /\ call.pc = "sampling"
    /\ \E d \in (SampleDraws \X SampleDraws) \ (call.inside \cup call.edge) :
          call' = [call EXCEPT !.draw = d]
    /\ UNCHANGED <<pre, database, tel, aut, ext>>

\* the first point is taken and the generator goes on
SampleReturn ==
    /\ call.op = "firstPoint" /\ call.pc = "done"
    /\ call' = NoCall
    /\ UNCHANGED <<pre, database, tel, aut, ext>>

NextSample ==
    \/ SampleCall
    \/ SampleInside
    \/ SampleEdge
    \/ SampleOutside
    \/ SampleReturn

\* a round of the do-while
SampleRound == SampleInside \/ SampleEdge \/ SampleOutside

\* the loop keeps drawing, and the random source is fair to the draws that
\* have an area to fall in: a draw inside the polygon comes up in the end. An
\* exact hit of an edge takes two of the 2^53 values of Math.random() to
\* agree, and is not waited for.
SpecSample ==
    /\ Init
    /\ [][NextSample]_vars
    /\ WF_vars(SampleRound)
    /\ WF_vars(SampleInside)

\* C40 (as claimed): for every zone list that can be retrieved, the selection
\* of the first point inside the target zone ends after finitely many
\* sampling rounds, also when the polygon of the target zone has no area
\* because its boundary points are collinear.
C40_Claim ==
    (call.op = "firstPoint" /\ call.pc = "sampling")
        ~> (call.op = "firstPoint" /\ call.pc = "done")

====
